---- MODULE Spec2Model ----
(***************************************************************************)
(* Render-target (framebuffer) management of igl/opengl: the binding scope *)
(* guard, CustomFramebuffer and the driver state they act on.              *)
(*                                                                         *)
(* The driver context is the record gl; every handler is a composition of  *)
(* driver calls on it, each of which appends itself to gl.log, so gl.log   *)
(* is the list of driver calls issued by the most recent operation.        *)
(***************************************************************************)
EXTENDS Integers, Sequences, FiniteSets, TLC

VARIABLES
  features,   \* DeviceFeatures of the context (fixed for a behaviour)
  gl,         \* driver state of the current context, with the call log
  guards,     \* FramebufferBindingGuard objects alive in the caller, innermost last
  fbo,        \* the CustomFramebuffer object
  mapOrder,   \* the order in which the colour attachment mapping iterates its keys
  last        \* the most recent operation, its inputs and what it returned

vars == <<features, gl, guards, fbo, mapOrder, last>>

---------------------------------------------------------------------------
(* Bounds *)

\* caller-owned framebuffer names are 1..MaxAmbientFb (0 is the default one)
MaxAmbientFb == 1
\* render-buffer names the caller binds are 0..MaxRb
MaxRb == 1
\* guards alive at once in the caller
MaxGuards == 1
\* colour attachment indices are 0..MaxColorIdx
MaxColorIdx == 2

ColorIdx == 0 .. MaxColorIdx
\* framebuffer names the driver can hand out: the caller's, then the object's
\* own, its resolve target's and one scratch framebuffer
FbNames == 1 .. (MaxAmbientFb + 3)

---------------------------------------------------------------------------
(* Driver constants *)

GL_FRAMEBUFFER_COMPLETE == 36053
GL_FRAMEBUFFER_INCOMPLETE_ATTACHMENT == 36054
GL_FRAMEBUFFER_INCOMPLETE_MISSING_ATTACHMENT == 36055
GL_FRAMEBUFFER_INCOMPLETE_DIMENSIONS == 36057
GL_FRAMEBUFFER_UNSUPPORTED == 36061
\* a status the switch of checkFramebufferStatus has no case for
GL_FRAMEBUFFER_UNDEFINED == 33305
GL_FRAMEBUFFER_INCOMPLETE_MULTISAMPLE == 36182

---------------------------------------------------------------------------
(* Attachable resources.  Texture 0 is nullptr. *)

TextureTable == <<
  \* 1: render-buffer backed 2D target (TextureTarget)
  [type |-> "TwoD", implicit |-> FALSE, sRGB |-> FALSE, format |-> "RGBA_UNorm8",
   layers |-> 1, samples |-> 1, renderBuffer |-> TRUE, status |-> GL_FRAMEBUFFER_COMPLETE],
  \* 2: another render-buffer backed 2D target, sRGB and multisampled
  [type |-> "TwoD", implicit |-> FALSE, sRGB |-> TRUE, format |-> "RGBA_SRGB",
   layers |-> 1, samples |-> 4, renderBuffer |-> TRUE, status |-> GL_FRAMEBUFFER_COMPLETE],
  \* 3: implicit storage (the surface supplied by the containing view)
  [type |-> "TwoD", implicit |-> TRUE, sRGB |-> FALSE, format |-> "RGBA_UNorm8",
   layers |-> 1, samples |-> 1, renderBuffer |-> FALSE, status |-> GL_FRAMEBUFFER_COMPLETE],
  \* 4: cube texture
  [type |-> "Cube", implicit |-> FALSE, sRGB |-> FALSE, format |-> "RGBA_UNorm8",
   layers |-> 1, samples |-> 1, renderBuffer |-> FALSE, status |-> GL_FRAMEBUFFER_COMPLETE],
  \* 5: array texture of unsigned 32-bit integers
  [type |-> "TwoDArray", implicit |-> FALSE, sRGB |-> FALSE, format |-> "RGBA_UInt32",
   layers |-> 2, samples |-> 1, renderBuffer |-> FALSE, status |-> GL_FRAMEBUFFER_COMPLETE],
  \* 6: a target the driver cannot render to
  [type |-> "TwoD", implicit |-> FALSE, sRGB |-> FALSE, format |-> "RGBA_UNorm8",
   layers |-> 1, samples |-> 1, renderBuffer |-> TRUE, status |-> GL_FRAMEBUFFER_INCOMPLETE_ATTACHMENT],
  \* 7: a target of other dimensions than the rest
  [type |-> "TwoD", implicit |-> FALSE, sRGB |-> FALSE, format |-> "RGBA_UNorm8",
   layers |-> 1, samples |-> 1, renderBuffer |-> TRUE, status |-> GL_FRAMEBUFFER_INCOMPLETE_DIMENSIONS],
  \* 8: a format combination the driver does not support
  [type |-> "TwoD", implicit |-> FALSE, sRGB |-> FALSE, format |-> "RGBA_UNorm8",
   layers |-> 1, samples |-> 1, renderBuffer |-> TRUE, status |-> GL_FRAMEBUFFER_UNSUPPORTED],
  \* 9: 2D texture of unsigned 32-bit integers
  [type |-> "TwoD", implicit |-> FALSE, sRGB |-> FALSE, format |-> "RGBA_UInt32",
   layers |-> 1, samples |-> 1, renderBuffer |-> FALSE, status |-> GL_FRAMEBUFFER_COMPLETE],
  \* 10: array texture of 8-bit colours
  [type |-> "TwoDArray", implicit |-> FALSE, sRGB |-> FALSE, format |-> "RGBA_UNorm8",
   layers |-> 2, samples |-> 1, renderBuffer |-> FALSE, status |-> GL_FRAMEBUFFER_COMPLETE],
  \* 11: a target whose sample count differs from the rest, a status the code has no name for
  [type |-> "TwoD", implicit |-> FALSE, sRGB |-> FALSE, format |-> "RGBA_UNorm8",
   layers |-> 1, samples |-> 2, renderBuffer |-> TRUE,
   status |-> GL_FRAMEBUFFER_INCOMPLETE_MULTISAMPLE]
>>

nullptr == 0

---------------------------------------------------------------------------
(* Driver state *)

NoAttachments == [color |-> [i \in ColorIdx |-> nullptr], depth |-> nullptr, stencil |-> nullptr]

\* what the driver has attached to framebuffer n
Attached(att) ==
  {att.color[i] : i \in ColorIdx} \cup {att.depth, att.stencil}

\* the driver's completeness status of framebuffer name id
FramebufferStatusOf(g, id) ==
  IF id = 0
    THEN IF g.defaultComplete THEN GL_FRAMEBUFFER_COMPLETE ELSE GL_FRAMEBUFFER_UNDEFINED
    ELSE LET ts == Attached(g.att[id]) \ {nullptr}
             bad == {t \in ts : TextureTable[t].status # GL_FRAMEBUFFER_COMPLETE}
         IN IF ts = {} THEN GL_FRAMEBUFFER_INCOMPLETE_MISSING_ATTACHMENT
            ELSE IF bad # {} THEN TextureTable[CHOOSE t \in bad : \A u \in bad : t <= u].status
            ELSE GL_FRAMEBUFFER_COMPLETE

Call(op, a, b) == [op |-> op, a |-> a, b |-> b]
Logged(g, op, a, b) == [g EXCEPT !.log = Append(@, Call(op, a, b))]

\* the state an operation starts from: the same driver state, an empty call log
Fresh(g) == [g EXCEPT !.log = <<>>]

\* IContext::getIntegerv: a query, no state change
glGetIntegerv(g, pname) == Logged(g, "getIntegerv", pname, 0)

\* IContext::bindFramebuffer.  Without separate read/draw binding points the
\* driver has one binding and rejects the READ/DRAW targets (GL_INVALID_ENUM).
glBindFramebuffer(g, target, id) ==
  LET h == Logged(g, "bindFramebuffer", target, id)
  IN IF target = "GL_FRAMEBUFFER" THEN [h EXCEPT !.readFB = id, !.drawFB = id]
     ELSE IF ~features.ReadWriteFramebuffer THEN h
     ELSE IF target = "GL_READ_FRAMEBUFFER" THEN [h EXCEPT !.readFB = id]
     ELSE [h EXCEPT !.drawFB = id]

\* IContext::bindRenderbuffer
glBindRenderbuffer(g, id) ==
  [Logged(g, "bindRenderbuffer", "GL_RENDERBUFFER", id) EXCEPT !.rb = id]

\* IContext::checkFramebufferStatus(GL_FRAMEBUFFER): the draw framebuffer's status
glCheckFramebufferStatus(g) == FramebufferStatusOf(g, g.drawFB)

---------------------------------------------------------------------------
(* Result and checkFramebufferStatus *)

Result(code, message) == [code |-> code, message |-> message]
ResultOk == Result("Ok", <<>>)
isOk(r) == r.code = "Ok"

\* a validation that finds every framebuffer complete
StatusAlwaysOk(g) == [code |-> "Ok", message |-> <<>>]

\* the anonymous-namespace checkFramebufferStatus: the message is a list of parts,
\* the unknown-error message carrying the status number
checkFramebufferStatus(g) ==
  LET status == glCheckFramebufferStatus(g)
  IN IF status = GL_FRAMEBUFFER_COMPLETE THEN ResultOk
     ELSE Result("RuntimeError",
       CASE status = GL_FRAMEBUFFER_INCOMPLETE_ATTACHMENT ->
              <<"GL_FRAMEBUFFER_INCOMPLETE_ATTACHMENT">>
         [] status = GL_FRAMEBUFFER_INCOMPLETE_MISSING_ATTACHMENT ->
              <<"GL_FRAMEBUFFER_INCOMPLETE_MISSING_ATTACHMENT">>
         [] status = GL_FRAMEBUFFER_INCOMPLETE_DIMENSIONS ->
              <<"GL_FRAMEBUFFER_INCOMPLETE_DIMENSIONS">>
         [] status = GL_FRAMEBUFFER_UNSUPPORTED ->
              <<"GL_FRAMEBUFFER_UNSUPPORTED">>
         [] OTHER -> <<"GL_FRAMEBUFFER unknown error: ", status>>)

---------------------------------------------------------------------------
(* FramebufferBindingGuard *)

\* the constructor: the guard's fields and the driver state with the calls logged
FramebufferBindingGuard(g) ==
  LET g1 == glGetIntegerv(g, "GL_RENDERBUFFER_BINDING")
      g2 == Logged(g1, "checkFramebufferStatus", "GL_FRAMEBUFFER", 0)
      ok == isOk(checkFramebufferStatus(g1))
      rw == features.ReadWriteFramebuffer
      g3 == IF ~ok THEN g2
            ELSE IF rw THEN glGetIntegerv(glGetIntegerv(g2, "GL_READ_FRAMEBUFFER_BINDING"),
                                          "GL_DRAW_FRAMEBUFFER_BINDING")
            ELSE glGetIntegerv(g2, "GL_FRAMEBUFFER_BINDING")
  IN [g |-> g3,
      guard |-> [currentRenderbuffer_ |-> g.rb,
                 currentFramebuffer_ |-> IF ok /\ ~rw THEN g.drawFB ELSE 0,
                 currentReadFramebuffer_ |-> IF ok /\ rw THEN g.readFB ELSE 0,
                 currentDrawFramebuffer_ |-> IF ok /\ rw THEN g.drawFB ELSE 0]]

\* a destructor that restores the draw binding into both binding points
GuardDtorDrawOnly(g, guard) ==
  LET g1 == IF features.ReadWriteFramebuffer
              THEN glBindFramebuffer(
                     glBindFramebuffer(g, "GL_READ_FRAMEBUFFER", guard.currentDrawFramebuffer_),
                     "GL_DRAW_FRAMEBUFFER", guard.currentDrawFramebuffer_)
              ELSE g
  IN glBindRenderbuffer(g1, guard.currentRenderbuffer_)

\* the destructor
FramebufferBindingGuardDtor(g, guard) ==
  LET g1 == IF features.ReadWriteFramebuffer
              THEN glBindFramebuffer(
                     glBindFramebuffer(g, "GL_READ_FRAMEBUFFER", guard.currentReadFramebuffer_),
                     "GL_DRAW_FRAMEBUFFER", guard.currentDrawFramebuffer_)
              ELSE glBindFramebuffer(g, "GL_FRAMEBUFFER", guard.currentFramebuffer_)
  IN glBindRenderbuffer(g1, guard.currentRenderbuffer_)

Bindings(g) == [readFB |-> g.readFB, drawFB |-> g.drawFB, rb |-> g.rb]

---------------------------------------------------------------------------
(* Driver calls on framebuffer objects *)

GL_COLOR_ATTACHMENT0 == 36064

\* the name genFramebuffers hands out: the lowest one not in use
UnusedName(g) == CHOOSE n \in FbNames \ g.alloc : \A m \in FbNames \ g.alloc : n <= m

\* IContext::genFramebuffers(1, &id)
glGenFramebuffers(g, id) ==
  [Logged(g, "genFramebuffers", id, 0) EXCEPT !.alloc = @ \cup {id}, !.att[id] = NoAttachments]

\* the driver attaches resource t to a point of the draw framebuffer; with the
\* default framebuffer bound the call is an error and changes nothing
AttachColorPoint(g, index, t) ==
  IF g.drawFB = 0 THEN g ELSE [g EXCEPT !.att[g.drawFB].color[index] = t]
AttachDepthPoint(g, t) ==
  IF g.drawFB = 0 THEN g ELSE [g EXCEPT !.att[g.drawFB].depth = t]
AttachStencilPoint(g, t) ==
  IF g.drawFB = 0 THEN g ELSE [g EXCEPT !.att[g.drawFB].stencil = t]

\* IContext::drawBuffers(n, bufs)
glDrawBuffers(g, bufs) == Logged(g, "drawBuffers", Len(bufs), bufs)

---------------------------------------------------------------------------
(* Attachable resources: the calls a framebuffer makes on a texture *)

\* TextureTarget::attachAsColor / attachAsDepth / attachAsStencil: the render
\* buffer is attached to the framebuffer bound to GL_FRAMEBUFFER
TextureTarget_attachAsColor(g, t, index) ==
  AttachColorPoint(Logged(g, "attachAsColor", t, index), index, t)
TextureTarget_attachAsDepth(g, t) ==
  AttachDepthPoint(Logged(g, "attachAsDepth", t, 0), t)
TextureTarget_attachAsStencil(g, t) ==
  AttachStencilPoint(Logged(g, "attachAsStencil", t, 0), t)

\* TextureTarget::detachAsColor: not implemented, the attachment stays
TextureTarget_detachAsColor(g, t, index) == Logged(g, "detachAsColor", t, index)

\* Texture::attachAsColor and the like of the other resources: an implicit-storage
\* resource has nothing to attach, a texture is attached like a render buffer
Texture_attachAsColor(g, t, index) ==
  IF TextureTable[t].renderBuffer THEN TextureTarget_attachAsColor(g, t, index)
  ELSE IF TextureTable[t].implicit THEN Logged(g, "attachAsColor", t, index)
  ELSE AttachColorPoint(Logged(g, "attachAsColor", t, index), index, t)
Texture_attachAsDepth(g, t) ==
  IF TextureTable[t].renderBuffer THEN TextureTarget_attachAsDepth(g, t)
  ELSE IF TextureTable[t].implicit THEN Logged(g, "attachAsDepth", t, 0)
  ELSE AttachDepthPoint(Logged(g, "attachAsDepth", t, 0), t)
Texture_attachAsStencil(g, t) ==
  IF TextureTable[t].renderBuffer THEN TextureTarget_attachAsStencil(g, t)
  ELSE IF TextureTable[t].implicit THEN Logged(g, "attachAsStencil", t, 0)
  ELSE AttachStencilPoint(Logged(g, "attachAsStencil", t, 0), t)
Texture_detachAsColor(g, t, index) ==
  IF TextureTable[t].renderBuffer THEN TextureTarget_detachAsColor(g, t, index)
  ELSE IF TextureTable[t].implicit THEN Logged(g, "detachAsColor", t, index)
  ELSE AttachColorPoint(Logged(g, "detachAsColor", t, index), index, nullptr)

---------------------------------------------------------------------------
(* FramebufferDesc: the colour attachments are a mapping from index to
   AttachmentDesc, here a function whose domain is the set of keys *)

AttachmentDesc(texture, resolveTexture) ==
  [texture |-> texture, resolveTexture |-> resolveTexture]

NoColorAttachments == [k \in {} |-> AttachmentDesc(nullptr, nullptr)]

FramebufferDesc(colors, depth, stencil, mode) ==
  [colorAttachments |-> colors, depthAttachment |-> depth,
   stencilAttachment |-> stencil, mode |-> mode]

DefaultFramebufferDesc ==
  FramebufferDesc(NoColorAttachments, AttachmentDesc(nullptr, nullptr),
                  AttachmentDesc(nullptr, nullptr), "Mono")

\* an erase that leaves the entry in the mapping
eraseNothing(map, k) == map

\* colorAttachments.erase(k)
erase(map, k) == [i \in DOMAIN map \ {k} |-> map[i]]

\* colorAttachments[k].texture = t: operator[] makes the entry if there is none
SetTexture(map, k, t) ==
  [i \in DOMAIN map \cup {k} |->
     IF i # k THEN map[i]
     ELSE IF k \in DOMAIN map THEN [map[k] EXCEPT !.texture = t]
     ELSE AttachmentDesc(t, nullptr)]

\* the keys of a mapping in the order a range-for visits them
Iterate(map) == SelectSeq(mapOrder, LAMBDA k : k \in DOMAIN map)

---------------------------------------------------------------------------
(* CustomFramebuffer *)

NoObject == [exists |-> FALSE]
NoPass == [bound |-> FALSE]

\* the object as its constructor leaves it
NewCustomFramebuffer ==
  [exists |-> TRUE, frameBufferID_ |-> 0, renderTarget_ |-> DefaultFramebufferDesc,
   initialized_ |-> FALSE, renderPass_ |-> NoPass, resolveFramebuffer |-> NoObject]

\* Framebuffer::bindBuffer
bindBuffer(obj, g) == glBindFramebuffer(g, "GL_FRAMEBUFFER", obj.frameBufferID_)

getColorAttachmentIndices(obj) == Iterate(obj.renderTarget_.colorAttachments)

getColorAttachment(obj, index) ==
  IF index \in DOMAIN obj.renderTarget_.colorAttachments
    THEN obj.renderTarget_.colorAttachments[index].texture
    ELSE nullptr

getResolveColorAttachment(obj, index) ==
  IF index \in DOMAIN obj.renderTarget_.colorAttachments
    THEN obj.renderTarget_.colorAttachments[index].resolveTexture
    ELSE nullptr

\* the flag is not consulted
AlwaysUninitialized(obj) == FALSE

isInitialized(obj) == obj.initialized_

\* no attachment counts as implicit storage
NeverImplicit(obj) == FALSE

hasImplicitColorAttachment(obj) ==
  IF obj.frameBufferID_ # 0 THEN FALSE
  ELSE /\ 0 \in DOMAIN obj.renderTarget_.colorAttachments
       /\ obj.renderTarget_.colorAttachments[0].texture # nullptr
       /\ TextureTable[obj.renderTarget_.colorAttachments[0].texture].implicit

\* CustomFramebuffer::attachAsColor
attachAsColor(obj, g, texture, index) ==
  IF obj.renderTarget_.mode = "Mono" THEN Texture_attachAsColor(g, texture, index)
  ELSE IF obj.renderTarget_.mode = "Stereo"
    THEN IF TextureTable[texture].samples > 1
           THEN AttachColorPoint(
                  Logged(g, "framebufferTextureMultisampleMultiview", texture, GL_COLOR_ATTACHMENT0),
                  0, texture)
           ELSE AttachColorPoint(
                  Logged(g, "framebufferTextureMultiview", texture, GL_COLOR_ATTACHMENT0 + index),
                  index, texture)
  ELSE g

\* CustomFramebuffer::attachAsDepth
attachAsDepth(obj, g, texture) ==
  IF obj.renderTarget_.mode = "Mono" THEN Texture_attachAsDepth(g, texture)
  ELSE IF obj.renderTarget_.mode = "Stereo"
    THEN AttachDepthPoint(
           Logged(g, IF TextureTable[texture].samples > 1
                       THEN "framebufferTextureMultisampleMultiview"
                       ELSE "framebufferTextureMultiview", texture, "GL_DEPTH_ATTACHMENT"),
           texture)
  ELSE g

\* CustomFramebuffer::attachAsStencil
attachAsStencil(obj, g, texture) ==
  IF obj.renderTarget_.mode = "Mono" THEN Texture_attachAsStencil(g, texture)
  ELSE IF obj.renderTarget_.mode = "Stereo"
    THEN AttachStencilPoint(
           Logged(g, IF TextureTable[texture].samples > 1
                       THEN "framebufferTextureMultisampleMultiview"
                       ELSE "framebufferTextureMultiview", texture, "GL_STENCIL_ATTACHMENT"),
           texture)
  ELSE g

\* a sort that leaves the list as it is
Unsorted(s) == s

RECURSIVE InsertSorted(_, _)
InsertSorted(x, s) ==
  IF s = <<>> THEN <<x>>
  ELSE IF x <= Head(s) THEN <<x>> \o s
  ELSE <<Head(s)>> \o InsertSorted(x, Tail(s))

\* std::sort(drawBuffers.begin(), drawBuffers.end())
RECURSIVE std_sort(_)
std_sort(s) == IF s = <<>> THEN <<>> ELSE InsertSorted(Head(s), std_sort(Tail(s)))

\* the first loop of prepareResource: attach every present colour attachment
RECURSIVE AttachColors(_, _, _)
AttachColors(obj, g, keys) ==
  IF keys = <<>> THEN g
  ELSE AttachColors(obj,
         attachAsColor(obj, g, obj.renderTarget_.colorAttachments[Head(keys)].texture,
                       Head(keys)),
         Tail(keys))

RECURSIVE DrawBufferList(_)
DrawBufferList(keys) ==
  IF keys = <<>> THEN <<>>
  ELSE <<GL_COLOR_ATTACHMENT0 + Head(keys)>> \o DrawBufferList(Tail(keys))

\* the resolve descriptor prepareResource builds from the resolve textures
ResolveKeys(rt) ==
  {k \in DOMAIN rt.colorAttachments : rt.colorAttachments[k].resolveTexture # nullptr}

\* the depth and stencil resolve textures in each other's slot
ResolveDescSwapped(rt) ==
  FramebufferDesc(
    [k \in ResolveKeys(rt) |-> AttachmentDesc(rt.colorAttachments[k].resolveTexture, nullptr)],
    AttachmentDesc(rt.stencilAttachment.resolveTexture, nullptr),
    AttachmentDesc(rt.depthAttachment.resolveTexture, nullptr),
    "Mono")

ResolveDesc(rt) ==
  FramebufferDesc(
    [k \in ResolveKeys(rt) |-> AttachmentDesc(rt.colorAttachments[k].resolveTexture, nullptr)],
    AttachmentDesc(rt.depthAttachment.resolveTexture, nullptr),
    AttachmentDesc(rt.stencilAttachment.resolveTexture, nullptr),
    "Mono")

\* no check of the resolve textures at all
NeverPartial(rt) == FALSE

\* createResolveFramebuffer && resolveDesc.colorAttachments.size() != colorAttachments.size()
PartialResolve(rt) ==
  /\ ResolveKeys(rt) # {}
  /\ Cardinality(ResolveKeys(rt)) # Cardinality(DOMAIN rt.colorAttachments)

\* a resolve framebuffer whatever the descriptor declares
AlwaysResolveFramebuffer(rt) == TRUE

\* the flag createResolveFramebuffer at the end of prepareResource
createResolveFramebuffer(rt) ==
  \/ ResolveKeys(rt) # {}
  \/ rt.depthAttachment.resolveTexture # nullptr
  \/ rt.stencilAttachment.resolveTexture # nullptr

PartialResolveMessage ==
  <<"If resolve texture is specified on a color attachment it must be specified on all of them">>

\* the colour attachments that hold a texture, in the order of the iteration
PresentColors(rt) ==
  SelectSeq(Iterate(rt.colorAttachments), LAMBDA k : rt.colorAttachments[k].texture # nullptr)

\* the draw-buffer list of prepareResource, and the call that is made with it
SetDrawBuffers(obj, g) ==
  LET drawBuffers == std_sort(DrawBufferList(PresentColors(obj.renderTarget_)))
  IN IF Len(drawBuffers) > 1 THEN glDrawBuffers(g, drawBuffers) ELSE g

AttachDepthIfPresent(obj, g) ==
  IF obj.renderTarget_.depthAttachment.texture # nullptr
    THEN attachAsDepth(obj, g, obj.renderTarget_.depthAttachment.texture) ELSE g

AttachStencilIfPresent(obj, g) ==
  IF obj.renderTarget_.stencilAttachment.texture # nullptr
    THEN attachAsStencil(obj, g, obj.renderTarget_.stencilAttachment.texture) ELSE g

\* prepareResource up to the validation: the framebuffer is generated and bound,
\* the attachments are made
AttachResources(obj, g) ==
  AttachStencilIfPresent(obj,
    AttachDepthIfPresent(obj,
      SetDrawBuffers(obj,
        AttachColors(obj, bindBuffer(obj, glGenFramebuffers(g, obj.frameBufferID_)),
                     PresentColors(obj.renderTarget_)))))

\* the nested target takes its place in the object, its result is the result
WithResolveFramebuffer(obj, r) ==
  [obj |-> [obj EXCEPT !.resolveFramebuffer = r.obj], g |-> r.g, result |-> r.result]

RECURSIVE initialize(_, _, _)
RECURSIVE prepareResource(_, _)

\* the resolve step taken whatever the validation found
ResolveAfterFailure(obj, g, result) ==
  IF PartialResolve(obj.renderTarget_)
    THEN [obj |-> obj, g |-> g, result |-> Result("ArgumentInvalid", PartialResolveMessage)]
  ELSE IF createResolveFramebuffer(obj.renderTarget_)
    THEN WithResolveFramebuffer(obj,
           initialize(NewCustomFramebuffer, g, ResolveDesc(obj.renderTarget_)))
  ELSE [obj |-> obj, g |-> g, result |-> result]

\* prepareResource from the validation on, result being what the validation found
ResolveResources(obj, g, result) ==
  IF ~isOk(result) THEN [obj |-> obj, g |-> g, result |-> result]
  ELSE IF PartialResolve(obj.renderTarget_)
    THEN [obj |-> obj, g |-> g, result |-> Result("ArgumentInvalid", PartialResolveMessage)]
  ELSE IF createResolveFramebuffer(obj.renderTarget_)
    THEN WithResolveFramebuffer(obj,
           initialize(NewCustomFramebuffer, g, ResolveDesc(obj.renderTarget_)))
  ELSE [obj |-> obj, g |-> g, result |-> result]

\* the validation of prepareResource
ValidateResources(obj, g) ==
  ResolveResources(obj, Logged(g, "checkFramebufferStatus", "GL_FRAMEBUFFER", 0),
                   checkFramebufferStatus(g))

\* prepareResource of an object that has its framebuffer name
PrepareNamed(obj, g) == ValidateResources(obj, AttachResources(obj, g))

\* CustomFramebuffer::prepareResource: the object, the driver state and *outResult
prepareResource(obj, g) == PrepareNamed([obj EXCEPT !.frameBufferID_ = UnusedName(g)], g)

\* a scope left without its guard's destructor
LeaveScopeBound(guard, r) == r

\* the end of the scope of a guard: the destructor runs on what the scope left
LeaveScope(guard, r) ==
  [obj |-> r.obj, g |-> FramebufferBindingGuardDtor(r.g, guard), result |-> r.result]

\* initialize of a fresh object, inside the scope of the guard c
InitializeInScope(obj, c) ==
  LeaveScope(c.guard,
    IF hasImplicitColorAttachment(obj)
      THEN [obj |-> obj, g |-> c.g, result |-> ResultOk]
      ELSE prepareResource(obj, c.g))

\* an initialize that keeps the flag only when it succeeded
initializeFlagOnSuccess(obj, g, desc) ==
  IF isInitialized(obj)
    THEN [obj |-> obj, g |-> g,
          result |-> Result("RuntimeError", <<"Framebuffer already initialized.">>)]
    ELSE LET r == InitializeInScope([obj EXCEPT !.initialized_ = TRUE, !.renderTarget_ = desc],
                                    FramebufferBindingGuard(g))
         IN [obj |-> [r.obj EXCEPT !.initialized_ = isOk(r.result)], g |-> r.g,
             result |-> r.result]

\* CustomFramebuffer::initialize: the object, the driver state and *outResult
initialize(obj, g, desc) ==
  IF isInitialized(obj)
    THEN [obj |-> obj, g |-> g,
          result |-> Result("RuntimeError", <<"Framebuffer already initialized.">>)]
    ELSE InitializeInScope([obj EXCEPT !.initialized_ = TRUE, !.renderTarget_ = desc],
                           FramebufferBindingGuard(g))

\* an attach whenever a texture is given
AttachesAnyTexture(obj, texture) == texture # nullptr

\* the test of updateDrawable that guards the attach: identity of the reference
AttachesNewTexture(obj, texture) ==
  texture # nullptr /\ getColorAttachment(obj, 0) # texture

\* the first branch of updateDrawable: the texture of attachment 0 is detached
\* and its entry erased
DetachDrawable(obj, g, texture) ==
  IF texture = nullptr /\ getColorAttachment(obj, 0) # nullptr
    THEN [obj |-> [obj EXCEPT !.renderTarget_.colorAttachments = erase(@, 0)],
          g |-> Texture_detachAsColor(bindBuffer(obj, g), getColorAttachment(obj, 0), 0)]
    ELSE [obj |-> obj, g |-> g]

\* the attach of updateDrawable, inside the scope of the guard c
AttachInScope(obj, c, texture) ==
  [obj |-> [obj EXCEPT !.renderTarget_.colorAttachments = SetTexture(@, 0, texture)],
   g |-> FramebufferBindingGuardDtor(attachAsColor(obj, bindBuffer(obj, c.g), texture, 0),
                                     c.guard)]

\* the second branch of updateDrawable, s being what the first branch left
AttachDrawable(s, texture) ==
  IF AttachesNewTexture(s.obj, texture)
    THEN AttachInScope(s.obj, FramebufferBindingGuard(s.g), texture)
    ELSE s

Returning(s, ret) == [obj |-> s.obj, g |-> s.g, ret |-> ret]

\* CustomFramebuffer::updateDrawable: the object, the driver state and the value returned
updateDrawable(obj, g, texture) ==
  Returning(AttachDrawable(DetachDrawable(obj, g, texture), texture), texture)

---------------------------------------------------------------------------
(* CustomFramebuffer::bind and unbind *)

GL_COLOR_BUFFER_BIT == 16384
GL_DEPTH_BUFFER_BIT == 256
GL_STENCIL_BUFFER_BIT == 1024

\* IContext::enable / disable
glEnable(g, cap) ==
  LET h == Logged(g, "enable", cap, 0)
  IN IF cap = "GL_STENCIL_TEST" THEN [h EXCEPT !.stencilTest = TRUE]
     ELSE IF cap = "GL_FRAMEBUFFER_SRGB" THEN [h EXCEPT !.sRGB = TRUE]
     ELSE h
glDisable(g, cap) ==
  LET h == Logged(g, "disable", cap, 0)
  IN IF cap = "GL_STENCIL_TEST" THEN [h EXCEPT !.stencilTest = FALSE]
     ELSE IF cap = "GL_FRAMEBUFFER_SRGB" THEN [h EXCEPT !.sRGB = FALSE]
     ELSE h

\* the body of the loop of bind over the colour attachments, for the key k
BindColorAttachment(obj, g, k) ==
  LET texture == obj.renderTarget_.colorAttachments[k].texture
      g1 == IF ~features.IGL_OPENGL_ES /\ features.SRGB
              THEN IF TextureTable[texture].sRGB
                     THEN glEnable(g, "GL_FRAMEBUFFER_SRGB")
                     ELSE glDisable(g, "GL_FRAMEBUFFER_SRGB")
              ELSE g
  IN IF texture = nullptr THEN g
     ELSE IF TextureTable[texture].type = "Cube" THEN attachAsColor(obj, g1, texture, k)
     ELSE g1

RECURSIVE BindColorAttachments(_, _, _)
BindColorAttachments(obj, g, keys) ==
  IF keys = <<>> THEN g
  ELSE BindColorAttachments(obj, BindColorAttachment(obj, g, Head(keys)), Tail(keys))

\* a colour clear whenever the contents are not loaded
ClearsColorUnlessLoad(obj) ==
  /\ 0 \in DOMAIN obj.renderTarget_.colorAttachments
  /\ obj.renderTarget_.colorAttachments[0].texture # nullptr
  /\ obj.renderPass_.colorAttachments[0].loadAction # "Load"

\* the three tests of bind that add a bit to clearMask
ClearsColor(obj) ==
  /\ 0 \in DOMAIN obj.renderTarget_.colorAttachments
  /\ obj.renderTarget_.colorAttachments[0].texture # nullptr
  /\ obj.renderPass_.colorAttachments[0].loadAction = "Clear"
ClearsDepth(obj) ==
  /\ obj.renderTarget_.depthAttachment.texture # nullptr
  /\ obj.renderPass_.depthAttachment.loadAction = "Clear"
ClearsStencil(obj) ==
  /\ obj.renderTarget_.stencilAttachment.texture # nullptr
  /\ obj.renderPass_.stencilAttachment.loadAction = "Clear"

\* the steps of bind after the loop, each on the driver state the last one left
SetClearColor(obj, g) ==
  IF ClearsColor(obj)
    THEN Logged(Logged(g, "colorMask", TRUE, 0),
                "clearColor", obj.renderPass_.colorAttachments[0].clearColor, 0)
    ELSE g
SetClearDepth(obj, g) ==
  IF ClearsDepth(obj)
    THEN Logged(Logged(g, "depthMask", TRUE, 0),
                "clearDepthf", obj.renderPass_.depthAttachment.clearDepth, 0)
    ELSE g
\* the stencil test enabled only when the stencil is cleared
EnableStencilTestOnClear(obj, g) ==
  IF ClearsStencil(obj) THEN glEnable(g, "GL_STENCIL_TEST") ELSE g

EnableStencilTest(obj, g) ==
  IF obj.renderTarget_.stencilAttachment.texture # nullptr
    THEN glEnable(g, "GL_STENCIL_TEST") ELSE g
SetClearStencil(obj, g) ==
  IF ClearsStencil(obj)
    THEN Logged(Logged(g, "stencilMask", 255, 0),
                "clearStencil", obj.renderPass_.stencilAttachment.clearStencil, 0)
    ELSE g

\* the value of clearMask at the end of bind
clearMask(obj) ==
  (IF ClearsColor(obj) THEN GL_COLOR_BUFFER_BIT ELSE 0)
  + (IF ClearsDepth(obj) THEN GL_DEPTH_BUFFER_BIT ELSE 0)
  + (IF ClearsStencil(obj) THEN GL_STENCIL_BUFFER_BIT ELSE 0)

ClearIfMasked(obj, g) ==
  IF clearMask(obj) # 0 THEN Logged(g, "clear", clearMask(obj), 0) ELSE g

\* a bind that clears before it re-attaches the cube faces
BindPassClearFirst(obj, g) ==
  [obj |-> obj,
   g |-> BindColorAttachments(obj,
           ClearIfMasked(obj,
             SetClearStencil(obj,
               EnableStencilTest(obj,
                 SetClearDepth(obj, SetClearColor(obj, bindBuffer(obj, g)))))),
           Iterate(obj.renderTarget_.colorAttachments))]

\* bind of an object that holds the render pass
BindPass(obj, g) ==
  [obj |-> obj,
   g |-> ClearIfMasked(obj,
           SetClearStencil(obj,
             EnableStencilTest(obj,
               SetClearDepth(obj,
                 SetClearColor(obj,
                   BindColorAttachments(obj, bindBuffer(obj, g),
                                        Iterate(obj.renderTarget_.colorAttachments)))))))]

\* a bind that keeps the pass of the first bind
bindKeepsFirstPass(obj, g, renderPass) ==
  BindPass([obj EXCEPT !.renderPass_ = IF @ = NoPass THEN renderPass ELSE @], g)

\* CustomFramebuffer::bind: the object and the driver state
bind(obj, g, renderPass) == BindPass([obj EXCEPT !.renderPass_ = renderPass], g)

\* a list with an entry for every colour attachment that is not stored
InvalidateListEveryColor(obj) ==
  (IF /\ getColorAttachment(obj, 0) # nullptr
      /\ obj.renderPass_.colorAttachments[0].storeAction # "Store"
     THEN <<"GL_COLOR_ATTACHMENT0">> ELSE <<>>)
  \o (IF /\ getColorAttachment(obj, MaxColorIdx) # nullptr
         /\ obj.renderPass_.colorAttachments[MaxColorIdx].storeAction # "Store"
        THEN <<"GL_COLOR_ATTACHMENTn">> ELSE <<>>)
  \o (IF /\ obj.renderTarget_.depthAttachment.texture # nullptr
         /\ obj.renderPass_.depthAttachment.storeAction # "Store"
        THEN <<"GL_DEPTH_ATTACHMENT">> ELSE <<>>)
  \o (IF /\ obj.renderTarget_.stencilAttachment.texture # nullptr
         /\ obj.renderPass_.stencilAttachment.storeAction # "Store"
        THEN <<"GL_STENCIL_ATTACHMENT">> ELSE <<>>)

\* the list of attachments unbind hands to invalidateFramebuffer
InvalidateList(obj) ==
  (IF /\ 0 \in DOMAIN obj.renderTarget_.colorAttachments
      /\ obj.renderTarget_.colorAttachments[0].texture # nullptr
      /\ obj.renderPass_.colorAttachments[0].storeAction # "Store"
     THEN <<"GL_COLOR_ATTACHMENT0">> ELSE <<>>)
  \o (IF /\ obj.renderTarget_.depthAttachment.texture # nullptr
         /\ obj.renderPass_.depthAttachment.storeAction # "Store"
        THEN <<"GL_DEPTH_ATTACHMENT">> ELSE <<>>)
  \o (IF /\ obj.renderTarget_.stencilAttachment.texture # nullptr
         /\ obj.renderPass_.stencilAttachment.storeAction # "Store"
        THEN <<"GL_STENCIL_ATTACHMENT">> ELSE <<>>)

\* an unbind that does not ask for the capability
unbindWithoutCapabilityTest(obj, g) ==
  LET g1 == IF obj.renderTarget_.stencilAttachment.texture # nullptr
              THEN glDisable(g, "GL_STENCIL_TEST") ELSE g
      attachments == InvalidateList(obj)
  IN IF Len(attachments) > 0
       THEN Logged(g1, "invalidateFramebuffer", Len(attachments), attachments)
       ELSE g1

\* CustomFramebuffer::unbind: the driver state
unbind(obj, g) ==
  LET g1 == IF obj.renderTarget_.stencilAttachment.texture # nullptr
              THEN glDisable(g, "GL_STENCIL_TEST") ELSE g
      attachments == InvalidateList(obj)
  IN IF Len(attachments) > 0 /\ features.InvalidateFramebuffer
       THEN Logged(g1, "invalidateFramebuffer", Len(attachments), attachments)
       ELSE g1

---------------------------------------------------------------------------
(* Framebuffer::copyBytesColorAttachment and copyTextureColorAttachment *)

\* IContext::deleteFramebuffers(1, &id): a binding point that holds the name
\* falls back to the default framebuffer
glDeleteFramebuffers(g, id) ==
  LET h == Logged(g, "deleteFramebuffers", id, 0)
  IN IF id = 0 THEN h
     ELSE [h EXCEPT !.alloc = @ \ {id}, !.att[id] = NoAttachments,
                    !.readFB = IF @ = id THEN 0 ELSE @,
                    !.drawFB = IF @ = id THEN 0 ELSE @]

\* IContext::framebufferTextureLayer(GL_READ_FRAMEBUFFER, GL_COLOR_ATTACHMENT0, ..):
\* the layer becomes colour attachment 0 of the read framebuffer
glFramebufferTextureLayer(g, t, layer) ==
  LET h == Logged(g, "framebufferTextureLayer", t, layer)
  IN IF ~features.ReadWriteFramebuffer \/ g.readFB = 0 THEN h
     ELSE [h EXCEPT !.att[g.readFB].color[0] = t]

\* Framebuffer::bindBufferForRead
bindBufferForRead(obj, g) ==
  IF features.ReadWriteFramebuffer
    THEN glBindFramebuffer(g, "GL_READ_FRAMEBUFFER", obj.frameBufferID_)
    ELSE bindBuffer(obj, g)

\* Framebuffer::attachAsColorLayer
attachAsColorLayer(g, texture, layer) ==
  IF texture # nullptr THEN glFramebufferTextureLayer(g, texture, layer)
  ELSE glFramebufferTextureLayer(g, 0, 0)

\* a call of checkFramebufferStatus whose result is dropped
DiscardedStatus(g) == Logged(g, "checkFramebufferStatus", "GL_FRAMEBUFFER", 0)

\* the scratch framebuffer of a layered read, named id
BindScratch(g, id, texture, layer) ==
  DiscardedStatus(
    attachAsColorLayer(glBindFramebuffer(glGenFramebuffers(g, id), "GL_READ_FRAMEBUFFER", id),
                       texture, layer))

\* the read source of copyBytesColorAttachment: the driver state and extraFramebufferId
BindForCopy(obj, g, texture, layer) ==
  IF TextureTable[texture].layers > 1
    THEN [g |-> BindScratch(g, UnusedName(g), texture, layer), extraFramebufferId |-> UnusedName(g)]
    ELSE [g |-> bindBufferForRead(obj, g), extraFramebufferId |-> 0]

\* pixelStorei(GL_PACK_ALIGNMENT, ..) and flush
PackAndFlush(g) == Logged(Logged(g, "pixelStorei", "GL_PACK_ALIGNMENT", 0), "flush", 0, 0)

\* the integer transfer whatever the driver supports
IntegerTransferAlways(texture) == TextureTable[texture].format = "RGBA_UInt32"

\* the test that selects the integer transfer
IntegerTransfer(texture) ==
  TextureTable[texture].format = "RGBA_UInt32" /\ features.TextureInteger

\* the bytes readPixels writes: what was read, from which framebuffer
Pixels(g, format, type) == [format |-> format, type |-> type, from |-> g.readFB]

\* the pixel transfer of copyBytesColorAttachment: the driver state, the buffer
\* and extraFramebufferId
ReadPixels(s, texture, pixelBytes) ==
  IF IntegerTransfer(texture)
    THEN [g |-> Logged(s.g, "readPixels", "GL_RGBA_INTEGER", "GL_UNSIGNED_INT"),
          pixelBytes |-> Pixels(s.g, "GL_RGBA_INTEGER", "GL_UNSIGNED_INT"),
          extraFramebufferId |-> s.extraFramebufferId]
  ELSE IF TextureTable[texture].format = "RGBA_UInt32"
    THEN [g |-> s.g, pixelBytes |-> pixelBytes, extraFramebufferId |-> s.extraFramebufferId]
  ELSE [g |-> Logged(s.g, "readPixels", "GL_RGBA", "GL_UNSIGNED_BYTE"),
        pixelBytes |-> Pixels(s.g, "GL_RGBA", "GL_UNSIGNED_BYTE"),
        extraFramebufferId |-> s.extraFramebufferId]

\* the flush before the transfer
Flushed(s) == [g |-> PackAndFlush(s.g), extraFramebufferId |-> s.extraFramebufferId]

\* the layer is detached and the scratch framebuffer left allocated
ReleaseScratchLeaks(s, texture) ==
  IF TextureTable[texture].layers > 1
    THEN [g |-> DiscardedStatus(attachAsColorLayer(s.g, nullptr, 0)),
          pixelBytes |-> s.pixelBytes]
    ELSE [g |-> s.g, pixelBytes |-> s.pixelBytes]

\* the scratch framebuffer is taken down
ReleaseScratch(s, texture) ==
  IF TextureTable[texture].layers > 1
    THEN [g |-> IF s.extraFramebufferId > 0
                  THEN glDeleteFramebuffers(DiscardedStatus(attachAsColorLayer(s.g, nullptr, 0)),
                                            s.extraFramebufferId)
                  ELSE DiscardedStatus(attachAsColorLayer(s.g, nullptr, 0)),
          pixelBytes |-> s.pixelBytes]
    ELSE [g |-> s.g, pixelBytes |-> s.pixelBytes]

\* a scope that ends without the destructor of its guard
LeaveCopyScopeUnrestored(guard, s) == [g |-> s.g, pixelBytes |-> s.pixelBytes]

\* the end of the scope of the guard of a copy
LeaveCopyScope(guard, s) ==
  [g |-> FramebufferBindingGuardDtor(s.g, guard), pixelBytes |-> s.pixelBytes]

\* copyBytesColorAttachment inside the scope of the guard c
CopyBytesInScope(obj, c, texture, pixelBytes, layer) ==
  LeaveCopyScope(c.guard,
    ReleaseScratch(
      ReadPixels(Flushed(BindForCopy(obj, c.g, texture, layer)), texture, pixelBytes),
      texture))

\* a copy that takes any index for attachment 0
copyBytesAnyIndex(obj, g, index, pixelBytes, layer) ==
  IF getColorAttachment(obj, 0) # nullptr
    THEN CopyBytesInScope(obj, FramebufferBindingGuard(g), getColorAttachment(obj, 0),
                          pixelBytes, layer)
    ELSE [g |-> g, pixelBytes |-> pixelBytes]

\* Framebuffer::copyBytesColorAttachment: the driver state and the output buffer
copyBytesColorAttachment(obj, g, index, pixelBytes, layer) ==
  IF index # 0 THEN [g |-> g, pixelBytes |-> pixelBytes]
  ELSE IF getColorAttachment(obj, index) # nullptr
    THEN CopyBytesInScope(obj, FramebufferBindingGuard(g), getColorAttachment(obj, index),
                          pixelBytes, layer)
    ELSE [g |-> g, pixelBytes |-> pixelBytes]

\* copyTextureColorAttachment inside the scope of the guard c
CopyTextureInScope(obj, c, destTexture) ==
  FramebufferBindingGuardDtor(
    Logged(Logged(bindBufferForRead(obj, c.g), "bindTexture", destTexture, 0),
           "copyTexSubImage2D", "GL_TEXTURE_2D", 0),
    c.guard)

\* Framebuffer::copyTextureColorAttachment: the driver state
copyTextureColorAttachment(obj, g, index, destTexture) ==
  IF index # 0 \/ getColorAttachment(obj, index) = nullptr THEN g
  ELSE CopyTextureInScope(obj, FramebufferBindingGuard(g), destTexture)

\* a destructor that leaves the nested target alone
DtorOwnOnly(obj, g) ==
  IF obj.exists /\ obj.frameBufferID_ # 0 THEN glDeleteFramebuffers(g, obj.frameBufferID_) ELSE g

\* ~CustomFramebuffer, then the destruction of the member resolveFramebuffer
RECURSIVE CustomFramebufferDtor(_, _)
CustomFramebufferDtor(obj, g) ==
  IF ~obj.exists THEN g
  ELSE CustomFramebufferDtor(obj.resolveFramebuffer,
         IF obj.frameBufferID_ # 0 THEN glDeleteFramebuffers(g, obj.frameBufferID_) ELSE g)

---------------------------------------------------------------------------
(* CurrentFramebuffer: the framebuffer that is bound when it is constructed *)

\* the viewport of the context, which no call of these classes changes
AmbientViewport == <<0, 0, 4, 4>>

\* the DummyTexture made by the constructor: a size and nothing behind it
DummyTexture(viewport) ==
  [dummy |-> TRUE, width |-> viewport[3], height |-> viewport[4], sRGB |-> FALSE]

\* CurrentFramebuffer::CurrentFramebuffer: the object and the driver state
CurrentFramebuffer(g) ==
  [obj |-> [exists |-> TRUE, frameBufferID_ |-> g.drawFB, viewport_ |-> AmbientViewport,
            colorAttachment_ |-> DummyTexture(AmbientViewport)],
   g |-> glGetIntegerv(glGetIntegerv(g, "GL_FRAMEBUFFER_BINDING"), "GL_VIEWPORT")]

CurrentFramebuffer_getColorAttachmentIndices(obj) == <<0>>

CurrentFramebuffer_getColorAttachment(obj, index) == obj.colorAttachment_

CurrentFramebuffer_getResolveColorAttachment(obj, index) == obj.colorAttachment_

\* the sRGB switch of CurrentFramebuffer::bind, absent from an OpenGL ES build
CurrentSRGB(obj, g) ==
  IF ~features.IGL_OPENGL_ES /\ features.SRGB
    THEN IF CurrentFramebuffer_getResolveColorAttachment(
              obj, CurrentFramebuffer_getColorAttachmentIndices(obj)[1]).sRGB
           THEN glEnable(g, "GL_FRAMEBUFFER_SRGB")
           ELSE glDisable(g, "GL_FRAMEBUFFER_SRGB")
    ELSE g

\* a clear mask of the buffers whose load action is Clear
CurrentClearMaskIfClear(renderPass) ==
  (IF renderPass.colorAttachments[0].loadAction = "Clear" THEN GL_COLOR_BUFFER_BIT ELSE 0)
  + (IF renderPass.depthAttachment.loadAction = "Clear" THEN GL_DEPTH_BUFFER_BIT ELSE 0)
  + (IF renderPass.stencilAttachment.loadAction = "Clear" THEN GL_STENCIL_BUFFER_BIT ELSE 0)

\* the value of clearMask at the end of CurrentFramebuffer::bind
CurrentClearMask(renderPass) ==
  (IF renderPass.colorAttachments[0].loadAction # "Load" THEN GL_COLOR_BUFFER_BIT ELSE 0)
  + (IF renderPass.depthAttachment.loadAction # "Load" THEN GL_DEPTH_BUFFER_BIT ELSE 0)
  + (IF renderPass.stencilAttachment.loadAction # "Load" THEN GL_STENCIL_BUFFER_BIT ELSE 0)

\* the clear values set for the buffers in the mask, then the clear
CurrentClear(g, renderPass, mask) ==
  LET c == (mask \div GL_COLOR_BUFFER_BIT) % 2 = 1
      d == (mask \div GL_DEPTH_BUFFER_BIT) % 2 = 1
      t == (mask \div GL_STENCIL_BUFFER_BIT) % 2 = 1
      calls == (IF c THEN <<Call("colorMask", TRUE, 0),
                            Call("clearColor", renderPass.colorAttachments[0].clearColor, 0)>>
                     ELSE <<>>)
               \o (IF d THEN <<Call("depthMask", TRUE, 0),
                               Call("clearDepthf", renderPass.depthAttachment.clearDepth, 0)>>
                        ELSE <<>>)
               \o (IF t THEN <<Call("stencilMask", 255, 0),
                               Call("clearStencil", renderPass.stencilAttachment.clearStencil, 0)>>
                        ELSE <<>>)
               \o (IF mask # 0 THEN <<Call("clear", mask, 0)>> ELSE <<>>)
  IN [g EXCEPT !.log = @ \o calls]

\* CurrentFramebuffer::bind: the driver state
CurrentFramebuffer_bind(obj, g, renderPass) ==
  CurrentClear(CurrentSRGB(obj, bindBuffer(obj, g)), renderPass, CurrentClearMask(renderPass))

\* an unbind that goes back to the default framebuffer
UnbindToDefault(obj, g) == glBindFramebuffer(g, "GL_FRAMEBUFFER", 0)

\* CurrentFramebuffer::unbind: a no-op
CurrentFramebuffer_unbind(obj, g) == g

\* CurrentFramebuffer::updateDrawable: not reached, returns nullptr
CurrentFramebuffer_updateDrawable(obj, texture) == nullptr

---------------------------------------------------------------------------
(* Inputs *)

NoOp == [op |-> "none"]

\* the keys 0..MaxColorIdx in ascending order, and every order of them
Ascending == [i \in 1 .. MaxColorIdx + 1 |-> i - 1]
Descending == [i \in 1 .. MaxColorIdx + 1 |-> MaxColorIdx + 1 - i]
MapOrders ==
  {o \in [1 .. MaxColorIdx + 1 -> ColorIdx] : \A i, j \in DOMAIN o : i # j => o[i] # o[j]}

\* the driver's feature flags, and whether the build is the OpenGL ES one
AllFeatures ==
  [ReadWriteFramebuffer : BOOLEAN, SRGB : BOOLEAN, InvalidateFramebuffer : BOOLEAN,
   TextureInteger : BOOLEAN, IGL_OPENGL_ES : BOOLEAN]

PlainFeatures ==
  {f \in AllFeatures : ~f.SRGB /\ ~f.InvalidateFramebuffer /\ ~f.TextureInteger
                        /\ ~f.IGL_OPENGL_ES}

\* the caller's framebuffers: odd names hold a renderable colour target, even
\* names hold nothing (incomplete, missing attachment)
AmbientAttachments ==
  [n \in FbNames |->
     IF n <= MaxAmbientFb /\ n % 2 = 1
       THEN [NoAttachments EXCEPT !.color[0] = 1]
       ELSE NoAttachments]

AmbientNames == 1 .. MaxAmbientFb

AmbientContexts ==
  {g \in [readFB : 0 .. MaxAmbientFb, drawFB : 0 .. MaxAmbientFb, rb : 0 .. MaxRb,
          alloc : {AmbientNames}, rbAlloc : {1 .. MaxRb}, att : {AmbientAttachments},
          defaultComplete : BOOLEAN, stencilTest : {FALSE}, sRGB : {FALSE},
          log : {<<>>}] :
     features.ReadWriteFramebuffer \/ g.readFB = g.drawFB}

---------------------------------------------------------------------------
(* The guard in a caller's scope *)

GuardInit ==
  /\ features \in PlainFeatures
  /\ gl \in AmbientContexts
  /\ guards = <<>>
  /\ fbo = NoObject
  /\ mapOrder = Ascending
  /\ last = NoOp

\* FramebufferBindingGuard guard(context);
GuardEnter ==
  /\ Len(guards) < MaxGuards
  /\ LET r == FramebufferBindingGuard(Fresh(gl))
     IN /\ gl' = r.g
        /\ guards' = Append(guards, [guard |-> r.guard, pre |-> Bindings(gl),
                                     complete |-> isOk(checkFramebufferStatus(gl))])
        /\ last' = [op |-> "guardCtor"]
  /\ UNCHANGED <<features, fbo, mapOrder>>

\* the caller rebinds a framebuffer
CallerBindFramebuffer ==
  /\ \E target \in {"GL_FRAMEBUFFER", "GL_READ_FRAMEBUFFER", "GL_DRAW_FRAMEBUFFER"},
        id \in 0 .. MaxAmbientFb :
       gl' = glBindFramebuffer(Fresh(gl), target, id)
  /\ last' = [op |-> "bindFramebuffer"]
  /\ UNCHANGED <<features, guards, fbo, mapOrder>>

\* the caller rebinds a render-buffer
CallerBindRenderbuffer ==
  /\ \E id \in 0 .. MaxRb : gl' = glBindRenderbuffer(Fresh(gl), id)
  /\ last' = [op |-> "bindRenderbuffer"]
  /\ UNCHANGED <<features, guards, fbo, mapOrder>>

\* the guard goes out of scope
GuardExit ==
  /\ guards # <<>>
  /\ LET top == guards[Len(guards)]
     IN /\ gl' = FramebufferBindingGuardDtor(Fresh(gl), top.guard)
        /\ last' = [op |-> "guardDtor", pre |-> top.pre, complete |-> top.complete,
                    before |-> Bindings(gl)]
  /\ guards' = SubSeq(guards, 1, Len(guards) - 1)
  /\ UNCHANGED <<features, fbo, mapOrder>>

GuardNext == GuardEnter \/ CallerBindFramebuffer \/ CallerBindRenderbuffer \/ GuardExit

SpecGuard == GuardInit /\ [][GuardNext]_vars

BindCalls(log) == SelectSeq(log, LAMBDA c : c.op = "bindFramebuffer")

\* C1: a guard constructed while the ambient framebuffer is complete leaves, after
\* its destruction, the read and draw framebuffer bindings (the one combined binding
\* without separate read/draw points) and the render-buffer binding as they were at
\* its construction, whatever was rebound inside its scope.
C1_GuardRestoresBindings ==
  (last.op = "guardDtor" /\ last.complete) =>
    /\ gl.rb = last.pre.rb
    /\ gl.drawFB = last.pre.drawFB
    /\ gl.readFB = last.pre.readFB

C1_Witness ==
  /\ last.op = "guardDtor" /\ last.complete
  /\ features.ReadWriteFramebuffer
  /\ last.before.readFB # last.pre.readFB
  /\ last.before.drawFB # last.pre.drawFB
  /\ last.before.readFB # last.before.drawFB
  /\ last.before.rb # last.pre.rb

\* C2: the destruction of a guard constructed while the ambient framebuffer was
\* incomplete issues no framebuffer rebind call.
C2_NoRestoreWhenIncomplete ==
  (last.op = "guardDtor" /\ ~last.complete) => Len(BindCalls(gl.log)) = 0

---------------------------------------------------------------------------
(* initialize *)

\* colour attachment entries of the descriptors given to initialize: a render
\* target with or without a resolve texture, an entry without a texture, and at
\* index 0 the implicit-storage resource, as the texture or as the resolve texture
ColorChoices(i) ==
  {AttachmentDesc(1, nullptr), AttachmentDesc(1, 2), AttachmentDesc(nullptr, nullptr)}
    \cup (IF i = 0 THEN {AttachmentDesc(3, nullptr), AttachmentDesc(3, 2), AttachmentDesc(1, 3)}
                   ELSE {})

ColorMaps ==
  UNION {{m \in [K -> UNION {ColorChoices(i) : i \in ColorIdx}] :
            \A k \in K : m[k] \in ColorChoices(k)} : K \in SUBSET ColorIdx}

\* texture 6 makes the framebuffer it is attached to incomplete
InitDescriptors ==
  {FramebufferDesc(c, d, s, "Mono") :
     c \in ColorMaps,
     d \in {AttachmentDesc(nullptr, nullptr), AttachmentDesc(6, nullptr),
            AttachmentDesc(1, 2), AttachmentDesc(1, 6)},
     s \in {AttachmentDesc(nullptr, nullptr), AttachmentDesc(1, 2)}}

\* the caller's context at a call: nothing of the caller's is disturbed yet
CallContexts ==
  {g \in AmbientContexts : g.rb = 0 /\ g.readFB = g.drawFB /\ g.defaultComplete}

InitInit ==
  /\ features \in PlainFeatures
  /\ gl \in CallContexts
  /\ guards = <<>>
  /\ fbo = NewCustomFramebuffer
  /\ mapOrder \in {Ascending, Descending}
  /\ last = NoOp

\* fbo.initialize(desc, &result).  A second initialize does not read its
\* descriptor, so one descriptor stands for all of them there.
InitializeFrom(D) ==
  /\ fbo.exists
  /\ fbo.initialized_ \/ Cardinality(FbNames \ gl.alloc) >= 2
  /\ \E desc \in (IF fbo.initialized_ THEN {DefaultFramebufferDesc} ELSE D) :
       LET r == initialize(fbo, Fresh(gl), desc)
       IN /\ fbo' = r.obj
          /\ gl' = r.g
          /\ last' = [op |-> "initialize", result |-> r.result,
                      wasInitialized |-> fbo.initialized_, pre |-> Bindings(gl)]
  /\ UNCHANGED <<features, guards, mapOrder>>

Initialize == InitializeFrom(InitDescriptors)

InitNext == Initialize

SpecInit == InitInit /\ [][InitNext]_vars

\* the call just made was the first initialize of the object
FirstInitialize == last.op = "initialize" /\ ~last.wasInitialized
\* it took the path that skips the native framebuffer
ImplicitPath == fbo.frameBufferID_ = 0
\* the driver reports the object's own framebuffer complete
Validated(obj) ==
  obj.frameBufferID_ # 0 /\ FramebufferStatusOf(gl, obj.frameBufferID_) = GL_FRAMEBUFFER_COMPLETE

SomeColorResolve(rt) ==
  \E k \in DOMAIN rt.colorAttachments : rt.colorAttachments[k].resolveTexture # nullptr
AllColorResolve(rt) ==
  \A k \in DOMAIN rt.colorAttachments : rt.colorAttachments[k].resolveTexture # nullptr

\* C4 as stated: when some colour attachment declares a resolve texture and not
\* every one does, initialize returns ArgumentInvalid, on the implicit path too and
\* whatever the completeness of the primary attachments.
C4_PartialResolveAlwaysRejected ==
  (FirstInitialize /\ SomeColorResolve(fbo.renderTarget_) /\ ~AllColorResolve(fbo.renderTarget_))
    => last.result.code = "ArgumentInvalid"

\* C4 (amended): when some colour attachment declares a resolve texture and not
\* every one does, initialize returns ArgumentInvalid if it takes the explicit path
\* and the driver reports the primary attachments complete; on the implicit path it
\* returns Ok, and with an incomplete framebuffer it returns the RuntimeError of the
\* validation.  With a resolve texture on every colour attachment it never returns
\* ArgumentInvalid.
C4_PartialResolveRejected ==
  FirstInitialize =>
    LET rt == fbo.renderTarget_
        partial == SomeColorResolve(rt) /\ ~AllColorResolve(rt)
    IN /\ (partial /\ ImplicitPath) => last.result = ResultOk
       /\ (partial /\ ~ImplicitPath /\ ~Validated(fbo)) => last.result.code = "RuntimeError"
       /\ (partial /\ Validated(fbo)) =>
            /\ last.result = Result("ArgumentInvalid", PartialResolveMessage)
            /\ ~fbo.resolveFramebuffer.exists
       /\ ~partial => last.result.code # "ArgumentInvalid"

C4_Witness ==
  /\ FirstInitialize
  /\ SomeColorResolve(fbo.renderTarget_) /\ ~AllColorResolve(fbo.renderTarget_)
  /\ Validated(fbo)
  /\ last.result.code = "ArgumentInvalid"

\* the descriptor declares resolve textures consistently: on every colour
\* attachment or on none, and on some attachment
ConsistentResolve(rt) ==
  /\ SomeColorResolve(rt) => AllColorResolve(rt)
  /\ \/ SomeColorResolve(rt)
     \/ rt.depthAttachment.resolveTexture # nullptr
     \/ rt.stencilAttachment.resolveTexture # nullptr

GenCalls(log) == SelectSeq(log, LAMBDA c : c.op = "genFramebuffers")

ImplicitDescriptor(rt) ==
  /\ 0 \in DOMAIN rt.colorAttachments
  /\ rt.colorAttachments[0].texture # nullptr
  /\ TextureTable[rt.colorAttachments[0].texture].implicit

OpsOf(log) == {log[i].op : i \in DOMAIN log}

AttachCallOps == {"attachAsColor", "attachAsDepth", "attachAsStencil",
                  "framebufferTextureMultiview", "framebufferTextureMultisampleMultiview"}

StatusCalls(log) == SelectSeq(log, LAMBDA c : c.op = "checkFramebufferStatus")

\* C12 as stated: when attachment 0 of the descriptor is an implicit-storage
\* resource and the object has no native framebuffer yet, initialize allocates no
\* framebuffer, issues no attach call and no completeness-validation call, returns
\* Ok and leaves the framebuffer identifier 0.
C12_ImplicitNoValidationCall ==
  (FirstInitialize /\ ImplicitDescriptor(fbo.renderTarget_)) =>
    /\ OpsOf(gl.log) \cap (AttachCallOps \cup {"genFramebuffers", "checkFramebufferStatus"}) = {}
    /\ last.result = ResultOk
    /\ fbo.frameBufferID_ = 0

\* C12 (amended): when attachment 0 of the descriptor is an implicit-storage
\* resource and the object has no native framebuffer yet, initialize allocates no
\* framebuffer, issues no attach or draw-buffer call, returns Ok and leaves the
\* framebuffer identifier 0; the one completeness query it issues is that of its
\* binding scope guard, on the caller's framebuffer, before any other framebuffer
\* call, and nothing is attached to any framebuffer.
C12_ImplicitSkipsFramebuffer ==
  (FirstInitialize /\ ImplicitDescriptor(fbo.renderTarget_)) =>
    /\ OpsOf(gl.log) \subseteq
         {"getIntegerv", "checkFramebufferStatus", "bindFramebuffer", "bindRenderbuffer"}
    /\ Len(StatusCalls(gl.log)) = 1
    /\ gl.log[1].op = "getIntegerv" /\ gl.log[2].op = "checkFramebufferStatus"
    /\ last.result = ResultOk
    /\ fbo.frameBufferID_ = 0
    /\ ~fbo.resolveFramebuffer.exists
    /\ gl.alloc = AmbientNames
    /\ gl.att = AmbientAttachments

C12_Witness ==
  /\ FirstInitialize /\ ImplicitDescriptor(fbo.renderTarget_)
  /\ fbo.renderTarget_.depthAttachment.texture # nullptr
  /\ fbo.renderTarget_.colorAttachments[0].resolveTexture # nullptr
  /\ last.result = ResultOk

---------------------------------------------------------------------------
(* the draw-buffer declaration of initialize, under every iteration order *)

DrawBufferDescriptors ==
  {FramebufferDesc(c, AttachmentDesc(nullptr, nullptr), AttachmentDesc(nullptr, nullptr), "Mono") :
     c \in {m \in ColorMaps : \A k \in DOMAIN m : m[k].texture # 3 /\ m[k].resolveTexture # 3}}
  \cup
  {FramebufferDesc(c, AttachmentDesc(nullptr, nullptr), AttachmentDesc(nullptr, nullptr), "Stereo") :
     c \in {m \in ColorMaps : \A k \in DOMAIN m : m[k] = AttachmentDesc(1, nullptr)}}
  \cup
  {FramebufferDesc(c, AttachmentDesc(nullptr, nullptr), AttachmentDesc(nullptr, nullptr), "Mono") :
     c \in {m \in ColorMaps : 0 \in DOMAIN m /\ m[0].texture = 3
                              /\ \A k \in DOMAIN m \ {0} : m[k] = AttachmentDesc(1, nullptr)}}

DrawBuffersInit ==
  /\ features \in PlainFeatures
  /\ gl \in CallContexts
  /\ guards = <<>>
  /\ fbo = NewCustomFramebuffer
  /\ mapOrder \in MapOrders
  /\ last = NoOp

InitializeDrawBuffers == InitializeFrom(DrawBufferDescriptors)

SpecDrawBuffers == DrawBuffersInit /\ [][InitializeDrawBuffers]_vars

\* the indices of an object's colour attachments whose texture is present
Active(obj) ==
  {k \in DOMAIN obj.renderTarget_.colorAttachments :
     obj.renderTarget_.colorAttachments[k].texture # nullptr}

\* the declarations an initialize of obj owes the driver: one, of its active
\* indices, when it has a native framebuffer and more than one index is active
Declarations(obj) ==
  IF obj.exists /\ obj.frameBufferID_ # 0 /\ Cardinality(Active(obj)) > 1
    THEN <<Active(obj)>> ELSE <<>>

\* list is the strictly ascending list of the attachment points of the indices
AscendingListOf(list, indices) ==
  /\ Len(list) = Cardinality(indices)
  /\ {list[i] : i \in DOMAIN list} = {GL_COLOR_ATTACHMENT0 + k : k \in indices}
  /\ \A i, j \in DOMAIN list : i < j => list[i] < list[j]

DrawBufferCalls(log) == SelectSeq(log, LAMBDA c : c.op = "drawBuffers")

\* C7: initialize declares to the driver the draw-buffer list of exactly the
\* indices whose texture is present, in strictly ascending order whatever the
\* order in which the mapping iterates, and only when more than one is active
\* (the nested resolve target's initialize likewise, after the primary's).
C7_DrawBuffersAscending ==
  FirstInitialize =>
    LET calls == DrawBufferCalls(gl.log)
        owed == Declarations(fbo) \o Declarations(fbo.resolveFramebuffer)
    IN /\ Len(calls) = Len(owed)
       /\ \A i \in DOMAIN calls :
            /\ AscendingListOf(calls[i].b, owed[i])
            /\ calls[i].a = Len(calls[i].b)

C7_Witness ==
  /\ FirstInitialize
  /\ Active(fbo) = {0, 2}
  /\ Iterate(fbo.renderTarget_.colorAttachments)[1] = 2
  /\ Len(DrawBufferCalls(gl.log)) = 1
  /\ DrawBufferCalls(gl.log)[1].b = <<GL_COLOR_ATTACHMENT0, GL_COLOR_ATTACHMENT0 + 2>>

---------------------------------------------------------------------------
(* updateDrawable *)

\* attachment 0 absent, an entry without a texture, a render target, the
\* implicit-storage resource or a cube texture; a second attachment or none
DrawableDescriptors ==
  {FramebufferDesc(c, AttachmentDesc(nullptr, nullptr), AttachmentDesc(nullptr, nullptr), "Mono") :
     c \in {m \in UNION {[K -> {AttachmentDesc(t, nullptr) : t \in {nullptr, 1, 3, 4}}] :
                           K \in SUBSET ColorIdx} :
              \A k \in DOMAIN m \ {0} : m[k].texture = 1}}

DrawableTextures == {nullptr, 1, 2, 3, 4}

DrawableInit ==
  /\ features \in PlainFeatures
  /\ gl \in CallContexts
  /\ guards = <<>>
  /\ fbo = NewCustomFramebuffer
  /\ mapOrder \in {Ascending, Descending}
  /\ last = NoOp

InitializeDrawable == InitializeFrom(DrawableDescriptors)

\* fbo.updateDrawable(texture)
UpdateDrawable ==
  /\ fbo.exists /\ fbo.initialized_
  /\ \E texture \in DrawableTextures :
       LET r == updateDrawable(fbo, Fresh(gl), texture)
       IN /\ fbo' = r.obj
          /\ gl' = r.g
          /\ last' = [op |-> "updateDrawable", texture |-> texture, ret |-> r.ret,
                      prev |-> getColorAttachment(fbo, 0),
                      prevDesc |-> fbo.renderTarget_, pre |-> Bindings(gl)]
  /\ UNCHANGED <<features, guards, mapOrder>>

DrawableNext == InitializeDrawable \/ UpdateDrawable

SpecDrawable == DrawableInit /\ [][DrawableNext]_vars

SeqElems(s) == {s[i] : i \in DOMAIN s}

\* C8: after updateDrawable(R) with R not empty, getColorAttachment(0) is R; after
\* updateDrawable(empty) with a texture at attachment 0, a detach of that texture
\* at index 0 was issued with the object's framebuffer bound, getColorAttachment(0)
\* is empty and getColorAttachmentIndices() does not contain 0.
C8_UpdateDrawableRoundTrip ==
  last.op = "updateDrawable" =>
    /\ last.ret = last.texture
    /\ last.texture # nullptr => getColorAttachment(fbo, 0) = last.texture
    /\ (last.texture = nullptr /\ last.prev # nullptr) =>
         /\ gl.log = <<Call("bindFramebuffer", "GL_FRAMEBUFFER", fbo.frameBufferID_),
                       Call("detachAsColor", last.prev, 0)>>
         /\ getColorAttachment(fbo, 0) = nullptr
         /\ 0 \notin SeqElems(getColorAttachmentIndices(fbo))

\* texture 2 gets to attachment 0 by updateDrawable only
C8_Witness ==
  /\ last.op = "updateDrawable"
  /\ last.texture = nullptr
  /\ last.prev = 2
  /\ DOMAIN fbo.renderTarget_.colorAttachments = {1}

\* C9: updateDrawable with the texture that is attachment 0 already, or with the
\* empty value when attachment 0 has no texture, issues no call (no attach, no
\* detach, no framebuffer bind) and leaves the descriptor as it was.
C9_UpdateDrawableIdempotent ==
  (last.op = "updateDrawable" /\ last.texture = last.prev) =>
    /\ gl.log = <<>>
    /\ fbo.renderTarget_ = last.prevDesc
    /\ Bindings(gl) = last.pre

C9_Witness ==
  /\ last.op = "updateDrawable"
  /\ last.texture = last.prev
  /\ last.texture = 2
  /\ fbo.frameBufferID_ # 0

---------------------------------------------------------------------------
(* bind and unbind *)

LoadActions == {"Load", "Clear", "DontCare"}

\* the colour attachments of a pass: a vector with an entry for every index
PassColor(load, store) ==
  [loadAction |-> load, storeAction |-> store, clearColor |-> "clearColor",
   layer |-> 0, mipmapLevel |-> 0]
PassDepth(load, store) ==
  [loadAction |-> load, storeAction |-> store, clearDepth |-> "clearDepth"]
PassStencil(load, store) ==
  [loadAction |-> load, storeAction |-> store, clearStencil |-> "clearStencil"]

\* contents that are not loaded with care are not stored either
StoreFor(load) == IF load = "DontCare" THEN "DontCare" ELSE "Store"

RenderPasses ==
  {[colorAttachments |-> [i \in ColorIdx |-> IF i = 0 THEN PassColor(c0, StoreFor(c0))
                                                      ELSE PassColor(cn, StoreFor(cn))],
    depthAttachment |-> PassDepth(d, StoreFor(d)),
    stencilAttachment |-> PassStencil(s, StoreFor(s))] :
     c0 \in LoadActions, cn \in {"Clear", "Load"}, d \in LoadActions, s \in {"Clear", "Load"}}

\* colour attachments with no resolve texture, or with one on each
BindDescriptors ==
  {FramebufferDesc([k \in DOMAIN c |-> AttachmentDesc(c[k], IF c[k] # nullptr /\ r THEN 2 ELSE nullptr)],
                   d, s, "Mono") :
     c \in {m \in UNION {[K -> {nullptr, 1}] : K \in {{}, {0}, {0, MaxColorIdx}}} :
              \A k \in DOMAIN m \ {0} : m[k] = 1},
     r \in BOOLEAN,
     d \in {AttachmentDesc(nullptr, nullptr), AttachmentDesc(1, nullptr), AttachmentDesc(1, 2)},
     s \in {AttachmentDesc(nullptr, nullptr), AttachmentDesc(1, nullptr)}}

BindInit ==
  /\ features \in {f \in PlainFeatures : f.ReadWriteFramebuffer}
  /\ gl \in {g \in CallContexts : g.drawFB = 0}
  /\ guards = <<>>
  /\ fbo = NewCustomFramebuffer
  /\ mapOrder \in {Ascending, Descending}
  /\ last = NoOp

InitializeBind == InitializeFrom(BindDescriptors)

\* fbo.bind(renderPass)
BindFrom(P) ==
  /\ fbo.exists /\ fbo.initialized_
  /\ \E renderPass \in P :
       LET r == bind(fbo, Fresh(gl), renderPass)
       IN fbo' = r.obj /\ gl' = r.g
  /\ last' = [op |-> "bind"]
  /\ UNCHANGED <<features, guards, mapOrder>>

\* fbo.unbind(), after a bind
Unbind ==
  /\ fbo.exists /\ fbo.initialized_ /\ fbo.renderPass_ # NoPass
  /\ gl' = unbind(fbo, Fresh(gl))
  /\ last' = [op |-> "unbind"]
  /\ UNCHANGED <<features, guards, fbo, mapOrder>>

Bind == BindFrom(RenderPasses)

BindNext == InitializeBind \/ Bind \/ Unbind

SpecBind == BindInit /\ [][BindNext]_vars

NoResolveDeclared(rt) ==
  /\ \A k \in DOMAIN rt.colorAttachments : rt.colorAttachments[k].resolveTexture = nullptr
  /\ rt.depthAttachment.resolveTexture = nullptr
  /\ rt.stencilAttachment.resolveTexture = nullptr

\* C6: when no attachment of the descriptor declares a resolve texture, initialize
\* and any number of bind/unbind cycles after it construct no nested resolve target
\* (no framebuffer but the object's own is allocated), and
\* getResolveColorAttachment is empty for every index.
C6_NoResolveTargetWithoutResolve ==
  (fbo.initialized_ /\ NoResolveDeclared(fbo.renderTarget_)) =>
    /\ ~fbo.resolveFramebuffer.exists
    /\ gl.alloc \ AmbientNames \subseteq {fbo.frameBufferID_}
    /\ \A i \in ColorIdx : getResolveColorAttachment(fbo, i) = nullptr

C6_Witness ==
  /\ last.op = "unbind"
  /\ NoResolveDeclared(fbo.renderTarget_)
  /\ DOMAIN fbo.renderTarget_.colorAttachments = {0}
  /\ fbo.renderTarget_.colorAttachments[0].texture = 1
  /\ fbo.renderTarget_.depthAttachment.texture = 1
  /\ Validated(fbo)

ClearCalls(log) == SelectSeq(log, LAMBDA c : c.op = "clear")

\* the bits a bind owes: a buffer's bit if and only if its attachment is
\* present and its load action is Clear
OwedClearBits(obj) ==
  (IF getColorAttachment(obj, 0) # nullptr
      /\ obj.renderPass_.colorAttachments[0].loadAction = "Clear"
     THEN {GL_COLOR_BUFFER_BIT} ELSE {})
  \cup (IF obj.renderTarget_.depthAttachment.texture # nullptr
           /\ obj.renderPass_.depthAttachment.loadAction = "Clear"
          THEN {GL_DEPTH_BUFFER_BIT} ELSE {})
  \cup (IF obj.renderTarget_.stencilAttachment.texture # nullptr
           /\ obj.renderPass_.stencilAttachment.loadAction = "Clear"
          THEN {GL_STENCIL_BUFFER_BIT} ELSE {})

\* the bits set in a clear mask
BitsOf(mask) ==
  {b \in {GL_COLOR_BUFFER_BIT, GL_DEPTH_BUFFER_BIT, GL_STENCIL_BUFFER_BIT} : (mask \div b) % 2 = 1}

---------------------------------------------------------------------------
(* unbind and the store actions of the pass *)

StoreActions == {"DontCare", "Store", "MsaaResolve"}

\* passes that load every buffer and differ in what they store
StorePasses ==
  {[colorAttachments |-> [i \in ColorIdx |-> PassColor("Load", IF i = 0 THEN c0 ELSE "Store")],
    depthAttachment |-> PassDepth("Load", d),
    stencilAttachment |-> PassStencil("Load", s)] :
     c0 \in StoreActions, d \in {"DontCare", "Store"}, s \in {"DontCare", "Store"}}

UnbindDescriptors ==
  {FramebufferDesc(c, d, s, "Mono") :
     c \in UNION {[K -> {AttachmentDesc(t, nullptr) : t \in {nullptr, 1}}] :
                    K \in {{}, {0}, {MaxColorIdx}}},
     d \in {AttachmentDesc(nullptr, nullptr), AttachmentDesc(1, nullptr)},
     s \in {AttachmentDesc(nullptr, nullptr), AttachmentDesc(1, nullptr)}}

UnbindInit ==
  /\ features \in {f \in AllFeatures : f.ReadWriteFramebuffer /\ ~f.SRGB /\ ~f.TextureInteger
                                       /\ ~f.IGL_OPENGL_ES}
  /\ gl \in {g \in CallContexts : g.drawFB = 0}
  /\ guards = <<>>
  /\ fbo = NewCustomFramebuffer
  /\ mapOrder = Ascending
  /\ last = NoOp

InitializeUnbind == InitializeFrom(UnbindDescriptors)

BindStorePass == BindFrom(StorePasses)

UnbindNext == InitializeUnbind \/ BindStorePass \/ Unbind

SpecUnbind == UnbindInit /\ [][UnbindNext]_vars

InvalidateCalls(log) == SelectSeq(log, LAMBDA c : c.op = "invalidateFramebuffer")

\* the attachments an unbind owes the driver a discard of: those among colour
\* 0, depth and stencil that are present and not stored by the pass bound last
OwedInvalidate(obj) ==
  (IF getColorAttachment(obj, 0) # nullptr
      /\ obj.renderPass_.colorAttachments[0].storeAction # "Store"
     THEN {"GL_COLOR_ATTACHMENT0"} ELSE {})
  \cup (IF obj.renderTarget_.depthAttachment.texture # nullptr
           /\ obj.renderPass_.depthAttachment.storeAction # "Store"
          THEN {"GL_DEPTH_ATTACHMENT"} ELSE {})
  \cup (IF obj.renderTarget_.stencilAttachment.texture # nullptr
           /\ obj.renderPass_.stencilAttachment.storeAction # "Store"
          THEN {"GL_STENCIL_ATTACHMENT"} ELSE {})

\* C11: unbind issues at most one invalidate call; it issues one exactly when the
\* driver has the framebuffer-invalidation capability and some attachment among
\* colour 0, depth and stencil is present with a store action other than Store in
\* the pass of the most recent bind, and its list is exactly those attachments,
\* each once.
C11_UnbindInvalidates ==
  last.op = "unbind" =>
    LET calls == InvalidateCalls(gl.log)
    IN /\ Len(calls) <= 1
       /\ Len(calls) = 1 <=> (features.InvalidateFramebuffer /\ OwedInvalidate(fbo) # {})
       /\ \A i \in DOMAIN calls :
            /\ SeqElems(calls[i].b) = OwedInvalidate(fbo)
            /\ Len(calls[i].b) = Cardinality(OwedInvalidate(fbo))
            /\ calls[i].a = Len(calls[i].b)

\* DontCare on depth and stencil, Store on colour: depth and stencil only
C11_Witness ==
  /\ last.op = "unbind"
  /\ features.InvalidateFramebuffer
  /\ getColorAttachment(fbo, 0) # nullptr
  /\ fbo.renderPass_.colorAttachments[0].storeAction = "Store"
  /\ fbo.renderPass_.depthAttachment.storeAction = "DontCare"
  /\ fbo.renderPass_.stencilAttachment.storeAction = "DontCare"
  /\ Len(InvalidateCalls(gl.log)) = 1
  /\ InvalidateCalls(gl.log)[1].b = <<"GL_DEPTH_ATTACHMENT", "GL_STENCIL_ATTACHMENT">>

---------------------------------------------------------------------------
(* pixel readback *)

\* the contents of the caller's buffer before a copy
CallerBytes == [format |-> "none", type |-> "none", from |-> 0]

\* attachment 0 absent, a render target, the array and 2D textures of integers
\* and of 8-bit colours, or implicit storage; a last attachment or none
CopyDescriptors ==
  {FramebufferDesc(c, AttachmentDesc(nullptr, nullptr), AttachmentDesc(nullptr, nullptr), "Mono") :
     c \in {m \in UNION {[K -> {AttachmentDesc(t, nullptr) : t \in {1, 3, 5, 9, 10}}] :
                           K \in SUBSET {0, MaxColorIdx}} :
              \A k \in DOMAIN m \ {0} : m[k].texture = 1}}

CopyInit ==
  /\ features \in {f \in AllFeatures : ~f.SRGB /\ ~f.InvalidateFramebuffer /\ ~f.IGL_OPENGL_ES}
  /\ gl \in AmbientContexts
  /\ guards = <<>>
  /\ fbo = NewCustomFramebuffer
  /\ mapOrder = Ascending
  /\ last = NoOp

InitializeCopy == InitializeFrom(CopyDescriptors)

\* fbo.copyBytesColorAttachment(queue, index, pixelBytes, range, bytesPerRow)
CopyBytes ==
  /\ fbo.exists /\ fbo.initialized_
  /\ FbNames \ gl.alloc # {}
  /\ \E index \in {0, MaxColorIdx}, layer \in 0 .. 1 :
       LET r == copyBytesColorAttachment(fbo, Fresh(gl), index, CallerBytes, layer)
       IN /\ gl' = r.g
          /\ last' = [op |-> "copyBytes", index |-> index, layer |-> layer,
                      pixelBytes |-> r.pixelBytes, pre |-> Bindings(gl),
                      preAlloc |-> gl.alloc, preAtt |-> gl.att,
                      complete |-> isOk(checkFramebufferStatus(gl))]
  /\ UNCHANGED <<features, guards, fbo, mapOrder>>

\* fbo.copyTextureColorAttachment(queue, index, destTexture, range)
CopyTexture ==
  /\ fbo.exists /\ fbo.initialized_
  /\ \E index \in {0, MaxColorIdx} :
       /\ gl' = copyTextureColorAttachment(fbo, Fresh(gl), index, 4)
       /\ last' = [op |-> "copyTexture", index |-> index, pre |-> Bindings(gl),
                   preAlloc |-> gl.alloc, preAtt |-> gl.att,
                   complete |-> isOk(checkFramebufferStatus(gl))]
  /\ UNCHANGED <<features, guards, fbo, mapOrder>>

CopyNext ==
  InitializeCopy \/ CallerBindFramebuffer \/ CallerBindRenderbuffer \/ CopyBytes \/ CopyTexture

SpecCopy == CopyInit /\ [][CopyNext]_vars

ReadPixelsCalls(log) == SelectSeq(log, LAMBDA c : c.op = "readPixels")

\* C16: copyBytesColorAttachment at an index other than 0 issues no driver call
\* (no bind, no pixel read, no framebuffer allocation) and leaves the output
\* buffer and the bindings as they were.
C16_CopyBytesRejectsIndex ==
  (last.op = "copyBytes" /\ last.index # 0) =>
    /\ gl.log = <<>>
    /\ last.pixelBytes = CallerBytes
    /\ Bindings(gl) = last.pre
    /\ gl.alloc = last.preAlloc
    /\ gl.att = last.preAtt

C16_Witness ==
  /\ last.op = "copyBytes" /\ last.index # 0
  /\ getColorAttachment(fbo, last.index) # nullptr
  /\ getColorAttachment(fbo, 0) # nullptr
  /\ fbo.frameBufferID_ # 0

\* C17 as stated: copyBytesColorAttachment at index 0 with a present attachment
\* issues exactly one pixel-read call: the integer transfer if and only if the
\* format is RGBA_UInt32 and the driver supports integer textures, the 8-bit RGBA
\* transfer in every other case.
C17_OnePixelReadAlways ==
  (last.op = "copyBytes" /\ last.index = 0 /\ getColorAttachment(fbo, 0) # nullptr) =>
    LET reads == ReadPixelsCalls(gl.log)
        integer == /\ TextureTable[getColorAttachment(fbo, 0)].format = "RGBA_UInt32"
                   /\ features.TextureInteger
    IN /\ Len(reads) = 1
       /\ reads[1] = IF integer THEN Call("readPixels", "GL_RGBA_INTEGER", "GL_UNSIGNED_INT")
                     ELSE Call("readPixels", "GL_RGBA", "GL_UNSIGNED_BYTE")

\* C17 (amended): copyBytesColorAttachment at index 0 with a present attachment
\* issues the integer transfer, once, if the format is RGBA_UInt32 and the driver
\* supports integer textures; no pixel read at all, the buffer left as it was, if
\* the format is RGBA_UInt32 and the driver does not; the 8-bit RGBA transfer,
\* once, for every other format.
C17_PixelReadByFormat ==
  (last.op = "copyBytes" /\ last.index = 0 /\ getColorAttachment(fbo, 0) # nullptr) =>
    LET reads == ReadPixelsCalls(gl.log)
        uint == TextureTable[getColorAttachment(fbo, 0)].format = "RGBA_UInt32"
    IN /\ (uint /\ features.TextureInteger) =>
            /\ reads = <<Call("readPixels", "GL_RGBA_INTEGER", "GL_UNSIGNED_INT")>>
            /\ last.pixelBytes.format = "GL_RGBA_INTEGER"
       /\ (uint /\ ~features.TextureInteger) =>
            /\ reads = <<>>
            /\ last.pixelBytes = CallerBytes
       /\ ~uint =>
            /\ reads = <<Call("readPixels", "GL_RGBA", "GL_UNSIGNED_BYTE")>>
            /\ last.pixelBytes.format = "GL_RGBA"

C17_Witness ==
  /\ last.op = "copyBytes" /\ last.index = 0
  /\ getColorAttachment(fbo, 0) = 9
  /\ ~features.TextureInteger
  /\ ReadPixelsCalls(gl.log) = <<>>
  /\ gl.log # <<>>

\* C18: copyBytesColorAttachment, its scratch-framebuffer path included, and
\* copyTextureColorAttachment leave the read and draw framebuffer bindings (or the
\* combined one) and the render-buffer binding as they were before the call, on
\* every path, when the framebuffer bound at the call was complete.
C18_CopyRestoresBindings ==
  (last.op \in {"copyBytes", "copyTexture"} /\ last.complete) => Bindings(gl) = last.pre

\* the scratch path with separate read and draw bindings
C18_Witness ==
  /\ last.op = "copyBytes" /\ last.complete
  /\ features.ReadWriteFramebuffer
  /\ last.pre.readFB # last.pre.drawFB
  /\ last.pre.rb # 0
  /\ \E i \in DOMAIN gl.log : gl.log[i].op = "deleteFramebuffers"
  /\ Bindings(gl) = last.pre

---------------------------------------------------------------------------
(* the life of a CustomFramebuffer, from construction to destruction *)

\* no colour attachment, or one at 0: a render target with or without a resolve
\* texture, implicit storage, an array texture, a target the driver rejects;
\* a depth attachment with a resolve texture or none
LifeDescriptors ==
  {FramebufferDesc(c, d, AttachmentDesc(nullptr, nullptr), "Mono") :
     c \in UNION {[K -> {AttachmentDesc(1, nullptr), AttachmentDesc(1, 2), AttachmentDesc(3, nullptr),
                         AttachmentDesc(5, nullptr), AttachmentDesc(6, nullptr)}] :
                    K \in {{}, {0}}},
     d \in {AttachmentDesc(nullptr, nullptr), AttachmentDesc(1, 2)}}

LifePasses ==
  {[colorAttachments |-> [i \in ColorIdx |-> PassColor(a, StoreFor(a))],
    depthAttachment |-> PassDepth(a, StoreFor(a)),
    stencilAttachment |-> PassStencil(a, StoreFor(a))] : a \in {"Clear", "DontCare"}}

LifeInit ==
  /\ features \in PlainFeatures
  /\ gl \in CallContexts
  /\ guards = <<>>
  /\ fbo = NewCustomFramebuffer
  /\ mapOrder = Ascending
  /\ last = NoOp

InitializeLife == InitializeFrom(LifeDescriptors)

BindLife == BindFrom(LifePasses)

\* the native framebuffers an object holds: its own and, through the member
\* resolveFramebuffer, those of its nested target
RECURSIVE OwnedNames(_)
OwnedNames(obj) ==
  IF ~obj.exists THEN {}
  ELSE ({obj.frameBufferID_} \ {0}) \cup OwnedNames(obj.resolveFramebuffer)

\* the last reference to fbo is dropped
Destroy ==
  /\ fbo.exists
  /\ gl' = CustomFramebufferDtor(fbo, Fresh(gl))
  /\ fbo' = NoObject
  /\ last' = [op |-> "destroy", owned |-> OwnedNames(fbo), wasInitialized |-> fbo.initialized_]
  /\ UNCHANGED <<features, guards, mapOrder>>

LifeNext ==
  \/ InitializeLife \/ BindLife \/ Unbind \/ UpdateDrawable
  \/ CopyBytes \/ CopyTexture \/ Destroy

SpecLifecycle == LifeInit /\ [][LifeNext]_vars

DeleteCalls(log) == SelectSeq(log, LAMBDA c : c.op = "deleteFramebuffers")

\* C13: through initialize, bind/unbind, updateDrawable and the copies, the
\* framebuffers allocated and not yet deleted are exactly those the object and
\* its nested resolve target hold, and none of these is deleted before the
\* destruction; the destruction deletes each of them exactly once and issues no
\* delete for name 0; no call of the object releases or destroys a texture or a
\* render buffer.
C13_OwnsItsFramebuffers ==
  /\ fbo.exists =>
       /\ gl.alloc \ AmbientNames = OwnedNames(fbo)
       /\ \A i \in DOMAIN DeleteCalls(gl.log) :
            DeleteCalls(gl.log)[i].a \notin OwnedNames(fbo) \cup {0}
  /\ last.op = "destroy" =>
       /\ Len(DeleteCalls(gl.log)) = Cardinality(last.owned)
       /\ {DeleteCalls(gl.log)[i].a : i \in DOMAIN DeleteCalls(gl.log)} = last.owned
       /\ 0 \notin last.owned
       /\ gl.alloc = AmbientNames
  /\ OpsOf(gl.log) \cap {"deleteTextures", "deleteRenderbuffers"} = {}

\* the object and its nested target each held a framebuffer
C13_Witness ==
  /\ last.op = "destroy"
  /\ Cardinality(last.owned) = 2
  /\ Len(DeleteCalls(gl.log)) = 2

---------------------------------------------------------------------------
(* a CurrentFramebuffer in a caller that rebinds framebuffers *)

CurrentInit ==
  /\ features \in {f \in AllFeatures : ~f.InvalidateFramebuffer /\ ~f.TextureInteger}
  /\ gl \in {g \in AmbientContexts : g.rb = 0 /\ g.defaultComplete}
  /\ guards = <<>>
  /\ fbo = NoObject
  /\ mapOrder = Ascending
  /\ last = NoOp

\* std::make_shared<CurrentFramebuffer>(context); born remembers the framebuffer
\* that was bound then
ConstructCurrent ==
  /\ ~fbo.exists
  /\ LET r == CurrentFramebuffer(Fresh(gl))
     IN /\ fbo' = [obj |-> r.obj, born |-> gl.drawFB, exists |-> TRUE]
        /\ gl' = r.g
  /\ last' = [op |-> "currentCtor"]
  /\ UNCHANGED <<features, guards, mapOrder>>

\* fbo.bind(renderPass)
CurrentBind ==
  /\ fbo.exists
  /\ \E renderPass \in RenderPasses :
       /\ gl' = CurrentFramebuffer_bind(fbo.obj, Fresh(gl), renderPass)
       /\ last' = [op |-> "currentBind", renderPass |-> renderPass]
  /\ UNCHANGED <<features, guards, fbo, mapOrder>>

\* fbo.unbind()
CurrentUnbind ==
  /\ fbo.exists
  /\ gl' = CurrentFramebuffer_unbind(fbo.obj, Fresh(gl))
  /\ last' = [op |-> "currentUnbind", before |-> Fresh(gl)]
  /\ UNCHANGED <<features, guards, fbo, mapOrder>>

\* fbo.updateDrawable(texture) and the accessors: no call, no change
CurrentAccess ==
  /\ fbo.exists
  /\ \E texture \in {nullptr, 1} :
       last' = [op |-> "currentAccess",
                ret |-> CurrentFramebuffer_updateDrawable(fbo.obj, texture),
                indices |-> CurrentFramebuffer_getColorAttachmentIndices(fbo.obj),
                color |-> CurrentFramebuffer_getColorAttachment(fbo.obj, 0)]
  /\ gl' = Fresh(gl)
  /\ UNCHANGED <<features, guards, fbo, mapOrder>>

\* the last reference is dropped: the class has nothing to release
DestroyCurrent ==
  /\ fbo.exists
  /\ fbo' = NoObject
  /\ gl' = Fresh(gl)
  /\ last' = [op |-> "currentDtor"]
  /\ UNCHANGED <<features, guards, mapOrder>>

CurrentNext ==
  \/ ConstructCurrent \/ CallerBindFramebuffer \/ CurrentBind \/ CurrentUnbind
  \/ CurrentAccess \/ DestroyCurrent

SpecCurrent == CurrentInit /\ [][CurrentNext]_vars

\* the buffers of a pass whose load action is in the set actions
BitsWithLoadAction(renderPass, actions) ==
  (IF renderPass.colorAttachments[0].loadAction \in actions THEN {GL_COLOR_BUFFER_BIT} ELSE {})
  \cup (IF renderPass.depthAttachment.loadAction \in actions THEN {GL_DEPTH_BUFFER_BIT} ELSE {})
  \cup (IF renderPass.stencilAttachment.loadAction \in actions THEN {GL_STENCIL_BUFFER_BIT} ELSE {})

\* C14 as stated: the bind of a CurrentFramebuffer puts a buffer's bit in the clear
\* only when its load action is Clear, as the bind of a CustomFramebuffer does; with
\* DontCare or Load on colour, depth and stencil it issues no clear call.
C14_CurrentClearsOnlyOnClear ==
  last.op = "currentBind" =>
    LET clears == ClearCalls(gl.log)
        owed == BitsWithLoadAction(last.renderPass, {"Clear"})
    IN /\ Len(clears) = (IF owed = {} THEN 0 ELSE 1)
       /\ \A i \in DOMAIN clears : BitsOf(clears[i].a) = owed

\* C14 (amended): the bind of a CurrentFramebuffer puts a buffer's bit in the clear
\* whenever its load action is not Load, that is for Clear and for DontCare; it
\* issues one clear call with these bits, and none only when colour, depth and
\* stencil all have the load action Load.
C14_CurrentClearsUnlessLoad ==
  last.op = "currentBind" =>
    LET clears == ClearCalls(gl.log)
        owed == BitsWithLoadAction(last.renderPass, {"Clear", "DontCare"})
    IN /\ Len(clears) = (IF owed = {} THEN 0 ELSE 1)
       /\ \A i \in DOMAIN clears : BitsOf(clears[i].a) = owed

C14_Witness ==
  /\ last.op = "currentBind"
  /\ last.renderPass.colorAttachments[0].loadAction = "DontCare"
  /\ last.renderPass.depthAttachment.loadAction = "DontCare"
  /\ last.renderPass.stencilAttachment.loadAction = "Load"
  /\ Len(ClearCalls(gl.log)) = 1
  /\ ClearCalls(gl.log)[1].a = GL_COLOR_BUFFER_BIT + GL_DEPTH_BUFFER_BIT

\* C15: a CurrentFramebuffer never creates or destroys a native framebuffer: from
\* its construction through binds, unbinds, accessor calls and its destruction no
\* framebuffer is allocated or deleted, its identifier stays the framebuffer that
\* was bound at its construction, getColorAttachmentIndices() is [0], and unbind
\* issues no driver call.
C15_CurrentOwnsNoFramebuffer ==
  /\ OpsOf(gl.log) \cap {"genFramebuffers", "deleteFramebuffers"} = {}
  /\ gl.alloc = AmbientNames
  /\ fbo.exists =>
       /\ fbo.obj.frameBufferID_ = fbo.born
       /\ CurrentFramebuffer_getColorAttachmentIndices(fbo.obj) = <<0>>
  /\ last.op = "currentUnbind" => gl = last.before

\* an unbind after a bind and a rebind by the caller
C15_Witness ==
  /\ last.op = "currentUnbind"
  /\ fbo.obj.frameBufferID_ # 0
  /\ gl.drawFB # fbo.obj.frameBufferID_
  /\ gl.log = <<>>

---------------------------------------------------------------------------
(* the completeness validation of initialize *)

\* no colour attachment or a render target at 0, with or without a resolve
\* texture; a depth attachment that is sound, or defective in one of the ways
\* the driver tells apart, or whose resolve texture is
ValidateDescriptors ==
  {FramebufferDesc(c, d, AttachmentDesc(nullptr, nullptr), "Mono") :
     c \in UNION {[K -> {AttachmentDesc(1, nullptr), AttachmentDesc(1, 2)}] : K \in {{}, {0}}},
     d \in {AttachmentDesc(nullptr, nullptr), AttachmentDesc(1, nullptr)}
           \cup {AttachmentDesc(t, nullptr) : t \in {6, 7, 8, 11}}
           \cup {AttachmentDesc(1, t) : t \in {7, 11}}}

ValidateInit ==
  /\ features \in PlainFeatures
  /\ gl \in CallContexts
  /\ guards = <<>>
  /\ fbo = NewCustomFramebuffer
  /\ mapOrder \in {Ascending, Descending}
  /\ last = NoOp

InitializeValidate == InitializeFrom(ValidateDescriptors)

SpecValidate == ValidateInit /\ [][InitializeValidate]_vars

\* the message owed for a driver status: its symbolic name, or the unknown-error
\* text with the number
SymbolicNames ==
  (GL_FRAMEBUFFER_INCOMPLETE_ATTACHMENT :> "GL_FRAMEBUFFER_INCOMPLETE_ATTACHMENT")
  @@ (GL_FRAMEBUFFER_INCOMPLETE_MISSING_ATTACHMENT :> "GL_FRAMEBUFFER_INCOMPLETE_MISSING_ATTACHMENT")
  @@ (GL_FRAMEBUFFER_INCOMPLETE_DIMENSIONS :> "GL_FRAMEBUFFER_INCOMPLETE_DIMENSIONS")
  @@ (GL_FRAMEBUFFER_UNSUPPORTED :> "GL_FRAMEBUFFER_UNSUPPORTED")

NamesStatus(result, status) ==
  /\ result.code = "RuntimeError"
  /\ result.message = IF status \in DOMAIN SymbolicNames THEN <<SymbolicNames[status]>>
                      ELSE <<"GL_FRAMEBUFFER unknown error: ", status>>

---------------------------------------------------------------------------
(* TextureTarget: the render-buffer-backed resource *)

\* render-buffer names of the driver: the caller's 1..MaxRb and room for more
RbNames == 1 .. (MaxRb + 2)

\* the name genRenderbuffers hands out: the lowest one not in use
UnusedRenderbuffer(g) ==
  CHOOSE n \in RbNames \ g.rbAlloc : \A m \in RbNames \ g.rbAlloc : n <= m

\* IContext::genRenderbuffers(1, &id)
glGenRenderbuffers(g, id) ==
  [Logged(g, "genRenderbuffers", id, 0) EXCEPT !.rbAlloc = @ \cup {id}]

\* IContext::renderbufferStorage(GL_RENDERBUFFER, format, width, height)
glRenderbufferStorage(g, format) == Logged(g, "renderbufferStorage", format, 1)

\* IContext::renderbufferStorageMultisample(GL_RENDERBUFFER, samples, format, ...)
glRenderbufferStorageMultisample(g, samples, format) ==
  Logged(g, "renderbufferStorageMultisample", format, samples)

\* IContext::deleteRenderbuffers(1, &id): the name is free again, and a deleted
\* render-buffer that was bound leaves the binding at 0
glDeleteRenderbuffers(g, id) ==
  [Logged(g, "deleteRenderbuffers", id, 0) EXCEPT
     !.rbAlloc = @ \ {id}, !.rb = IF @ = id /\ id # 0 THEN 0 ELSE @]

\* the formats with a native counterpart and that counterpart
FormatDescGL ==
  ("RGBA_UNorm8" :> "GL_RGBA8") @@ ("Z_UNorm24" :> "GL_DEPTH_COMPONENT24")
  @@ ("S_UInt8" :> "GL_STENCIL_INDEX8")

\* toFormatDescGL(format, usage, out): whether the format has a counterpart
toFormatDescGL(format, usage) == format \in DOMAIN FormatDescGL

\* a TextureTarget as constructed: no render-buffer, no format yet
NewTextureTarget == [renderBufferID_ |-> 0, glInternalFormat_ |-> "none", format |-> "none"]

\* Texture::create (Super::create): keeps the descriptor's format and returns
\* the result of the base class, here an input
Texture_create(target, desc, superResult) ==
  [target |-> IF isOk(superResult) THEN [target EXCEPT !.format = desc.format] ELSE target,
   result |-> superResult]

\* TextureTarget::toRenderBufferFormatGL: the native format of getFormat(), if any
toRenderBufferFormatGL(target, usage) ==
  IF ~toFormatDescGL(target.format, usage)
    THEN [ok |-> FALSE, target |-> target]
    ELSE [ok |-> TRUE,
          target |-> [target EXCEPT !.glInternalFormat_ = FormatDescGL[target.format]]]

\* storage for a new render-buffer: bind it, allocate, bind 0
AllocateStorage(g, id, desc, format) ==
  glBindRenderbuffer(
    IF desc.numSamples > 1
      THEN glRenderbufferStorageMultisample(glBindRenderbuffer(g, id), desc.numSamples, format)
      ELSE glRenderbufferStorage(glBindRenderbuffer(g, id), format),
    0)

\* the render-buffer of a 2D descriptor with a native format
GenRenderBuffer(target, g, desc, hasStorageAlready) ==
  LET id == UnusedRenderbuffer(g)
  IN [target |-> [target EXCEPT !.renderBufferID_ = id],
      g |-> IF ~hasStorageAlready
              THEN AllocateStorage(glGenRenderbuffers(g, id), id, desc, target.glInternalFormat_)
              ELSE glGenRenderbuffers(g, id),
      result |-> ResultOk]

\* a creation that allocates the render-buffer before it looks at the descriptor
createRenderBufferEager(target, g, desc, hasStorageAlready) ==
  IF desc.type # "TwoD"
    THEN [GenRenderBuffer(target, g, desc, hasStorageAlready) EXCEPT
            !.result = Result("Unimplemented",
                              <<"Non-2D textures are currently unsupported on GL backend.">>)]
    ELSE GenRenderBuffer(toRenderBufferFormatGL(target, desc.usage).target, g, desc,
                         hasStorageAlready)

\* TextureTarget::createRenderBuffer
createRenderBuffer(target, g, desc, hasStorageAlready) ==
  IF desc.type # "TwoD"
    THEN [target |-> target, g |-> g,
          result |-> Result("Unimplemented",
                            <<"Non-2D textures are currently unsupported on GL backend.">>)]
    ELSE IF ~toRenderBufferFormatGL(target, desc.usage).ok
      THEN [target |-> target, g |-> g,
            result |-> Result("ArgumentInvalid", <<"Invalid texture format">>)]
      ELSE GenRenderBuffer(toRenderBufferFormatGL(target, desc.usage).target, g, desc,
                           hasStorageAlready)

\* TextureTarget::create
TextureTarget_create(target, g, desc, hasStorageAlready, superResult) ==
  LET base == Texture_create(target, desc, superResult)
  IN IF isOk(base.result)
       THEN IF "Attachment" \in desc.usage
              THEN createRenderBuffer(base.target, g, desc, hasStorageAlready)
              ELSE [target |-> base.target, g |-> g,
                    result |-> Result("Unsupported", <<"invalid usage!">>)]
       ELSE [target |-> base.target, g |-> g, result |-> base.result]

\* TextureTarget::~TextureTarget
TextureTargetDtor(target, g) ==
  IF target.renderBufferID_ # 0 THEN glDeleteRenderbuffers(g, target.renderBufferID_) ELSE g

\* descriptors: every usage, the three texture types, formats with and without
\* a native counterpart, single- and multi-sampled
TextureDescs ==
  [usage : {{"Sampled"}, {"Attachment"}, {"Sampled", "Attachment"}},
   type : {"TwoD", "Cube", "TwoDArray"},
   format : {"RGBA_UNorm8", "Z_UNorm24", "Invalid"},
   numSamples : {1, 4}]

\* what the base class may answer
SuperResults == {ResultOk, Result("InvalidOperation", <<"Texture already created">>)}

TargetInit ==
  /\ features \in PlainFeatures
  /\ gl \in AmbientContexts
  /\ guards = <<>>
  /\ fbo = [target |-> NewTextureTarget, exists |-> TRUE, created |-> FALSE,
            result |-> ResultOk]
  /\ mapOrder = Ascending
  /\ last = NoOp

\* the factory creates a resource once
TargetCreate ==
  /\ fbo.exists /\ ~fbo.created
  /\ \E desc \in TextureDescs, hasStorageAlready \in BOOLEAN, superResult \in SuperResults :
       LET r == TextureTarget_create(fbo.target, Fresh(gl), desc, hasStorageAlready,
                                     superResult)
       IN /\ gl' = r.g
          /\ fbo' = [fbo EXCEPT !.target = r.target, !.created = TRUE, !.result = r.result]
          /\ last' = [op |-> "create", desc |-> desc, hasStorageAlready |-> hasStorageAlready,
                      super |-> superResult, result |-> r.result, preRb |-> gl.rbAlloc]
  /\ UNCHANGED <<features, guards, mapOrder>>

TargetDestroy ==
  /\ fbo.exists
  /\ gl' = TextureTargetDtor(fbo.target, Fresh(gl))
  /\ fbo' = [fbo EXCEPT !.exists = FALSE]
  /\ last' = [op |-> "destroy", created |-> fbo.created, result |-> fbo.result,
              preRb |-> gl.rbAlloc]
  /\ UNCHANGED <<features, guards, mapOrder>>

\* the factory makes the next resource
TargetConstruct ==
  /\ ~fbo.exists
  /\ fbo' = [target |-> NewTextureTarget, exists |-> TRUE, created |-> FALSE,
             result |-> ResultOk]
  /\ gl' = Fresh(gl)
  /\ last' = [op |-> "construct"]
  /\ UNCHANGED <<features, guards, mapOrder>>

TargetNext == TargetCreate \/ TargetDestroy \/ TargetConstruct

SpecTextureTarget == TargetInit /\ [][TargetNext]_vars

RenderbufferCalls(log, op) == SelectSeq(log, LAMBDA c : c.op = op)

\* the three rejections of a creation, each with the code it owes
OwedRejection(desc) ==
  IF "Attachment" \notin desc.usage THEN "Unsupported"
  ELSE IF desc.type # "TwoD" THEN "Unimplemented"
  ELSE IF desc.format \notin DOMAIN FormatDescGL THEN "ArgumentInvalid"
  ELSE "Ok"

\* what destruction owes a resource: one deletion of its render-buffer if its
\* creation succeeded, none otherwise
DestroyDeletesOwn ==
  last.op = "destroy" =>
    IF last.created /\ isOk(last.result)
      THEN /\ Len(RenderbufferCalls(gl.log, "deleteRenderbuffers")) = 1
           /\ gl.log[1].a = fbo.target.renderBufferID_
           /\ fbo.target.renderBufferID_ \in last.preRb \ (1 .. MaxRb)
           /\ gl.rbAlloc = 1 .. MaxRb
      ELSE /\ gl.log = <<>>
           /\ gl.rbAlloc = last.preRb

\* no render-buffer is allocated by a creation that fails
FailureAllocatesNone ==
  (last.op = "create" /\ ~isOk(last.result)) =>
    /\ RenderbufferCalls(gl.log, "genRenderbuffers") = <<>>
    /\ gl.rbAlloc = last.preRb
    /\ fbo.target.renderBufferID_ = 0

\* the claim as worded, each condition with its code whatever the other two are
C20_EachConditionItsCode ==
  /\ (last.op = "create" /\ isOk(last.super)) =>
       /\ "Attachment" \notin last.desc.usage => last.result.code = "Unsupported"
       /\ last.desc.type # "TwoD" => last.result.code = "Unimplemented"
       /\ last.desc.format \notin DOMAIN FormatDescGL => last.result.code = "ArgumentInvalid"
  /\ FailureAllocatesNone
  /\ DestroyDeletesOwn

\* C20: creating a render-buffer-backed resource whose base creation succeeds
\* checks in this order and returns at the first failure: Unsupported when the
\* usage lacks the attachment flag, otherwise Unimplemented when the type is not
\* 2D, otherwise ArgumentInvalid when the format has no render-buffer
\* counterpart, otherwise Ok with one render-buffer allocated; a failed base
\* creation returns its own result. In every failure case no render-buffer is
\* allocated and destruction deletes none, while the render-buffer of a
\* successful creation is deleted exactly once at destruction.
C20_FirstFailingCheck ==
  /\ last.op = "create" =>
       /\ isOk(last.super) => last.result.code = OwedRejection(last.desc)
       /\ ~isOk(last.super) => last.result = last.super
       /\ isOk(last.result) =>
            /\ Len(RenderbufferCalls(gl.log, "genRenderbuffers")) = 1
            /\ fbo.target.renderBufferID_ \notin last.preRb \cup {0}
            /\ gl.rbAlloc = last.preRb \cup {fbo.target.renderBufferID_}
  /\ FailureAllocatesNone
  /\ DestroyDeletesOwn

\* a successful creation destroyed
C20_Witness ==
  /\ last.op = "destroy" /\ last.created /\ isOk(last.result)
  /\ Len(RenderbufferCalls(gl.log, "deleteRenderbuffers")) = 1

---------------------------------------------------------------------------
(* the bindings of the caller across initialize and updateDrawable *)

\* only the separate read/draw binding points vary
FrameFeatures ==
  {f \in AllFeatures : ~f.SRGB /\ ~f.InvalidateFramebuffer /\ ~f.TextureInteger
                        /\ ~f.IGL_OPENGL_ES}

\* one descriptor for each way through initialize: the implicit colour
\* attachment, a failed validation (none attached, a defective depth texture),
\* a partial resolve, a plain success and a success with a nested resolve target
FrameDescriptors ==
  {FramebufferDesc(c, d, AttachmentDesc(nullptr, nullptr), "Mono") :
     c \in {NoColorAttachments,
            (0 :> AttachmentDesc(3, nullptr)),
            (0 :> AttachmentDesc(1, nullptr)),
            (0 :> AttachmentDesc(1, 2)),
            (0 :> AttachmentDesc(1, 2)) @@ (MaxColorIdx :> AttachmentDesc(1, nullptr))},
     d \in {AttachmentDesc(nullptr, nullptr), AttachmentDesc(6, nullptr)}}

FrameInit ==
  /\ features \in FrameFeatures
  /\ gl \in AmbientContexts
  /\ guards = <<>>
  /\ fbo = NewCustomFramebuffer
  /\ mapOrder = Ascending
  /\ last = NoOp

InitializeFrame == InitializeFrom(FrameDescriptors)

FrameNext == InitializeFrame \/ UpdateDrawable \/ CallerBindFramebuffer

SpecFrame == FrameInit /\ [][FrameNext]_vars

\* the framebuffer binds of a log, in order
FramebufferBinds(log) == SelectSeq(log, LAMBDA c : c.op = "bindFramebuffer")

\* the names the last n framebuffer binds of a log bound
LastBound(log, n) ==
  LET b == FramebufferBinds(log)
  IN [i \in 1 .. n |-> b[Len(b) - n + i].b]

\* the binds one guard destructor issues to restore read and draw (or the one
\* combined) binding
RestoreBinds(read, draw) ==
  IF features.ReadWriteFramebuffer THEN <<read, draw>> ELSE <<draw>>

\* the caller's draw framebuffer was complete when the call was made
AmbientWasComplete ==
  FramebufferStatusOf(gl, last.pre.drawFB) = GL_FRAMEBUFFER_COMPLETE

\* C21: a first initialize entered with a complete ambient framebuffer leaves the
\* read, draw and render-buffer bindings as they were before the call, whether it
\* took the implicit path, failed validation, rejected a partial resolve or
\* succeeded; and when it built a nested resolve target with a framebuffer of
\* its own, the last framebuffer binds of the call are the nested guard's
\* restoring the outer object's framebuffer followed by the outer guard's
\* restoring the caller's.
C21_InitializeRestoresBindings ==
  (FirstInitialize /\ AmbientWasComplete) =>
    /\ Bindings(gl) = last.pre
    /\ (fbo.resolveFramebuffer.exists /\ fbo.resolveFramebuffer.frameBufferID_ # 0) =>
         LET n == Len(RestoreBinds(0, 0))
         IN LastBound(gl.log, 2 * n) =
              RestoreBinds(fbo.frameBufferID_, fbo.frameBufferID_)
                \o RestoreBinds(last.pre.readFB, last.pre.drawFB)

\* a nested resolve target built while the caller had different read and draw
\* framebuffers and a render-buffer bound
C21_Witness ==
  /\ FirstInitialize /\ AmbientWasComplete
  /\ fbo.resolveFramebuffer.exists /\ fbo.resolveFramebuffer.frameBufferID_ # 0
  /\ last.pre.readFB # last.pre.drawFB /\ last.pre.rb # 0
  /\ Bindings(gl) = last.pre

\* C22: every updateDrawable, attaching, detaching or neither, leaves the
\* framebuffer bindings as they were before the call.
C22_UpdateDrawableKeepsBinding ==
  last.op = "updateDrawable" =>
    /\ gl.readFB = last.pre.readFB
    /\ gl.drawFB = last.pre.drawFB

---------------------------------------------------------------------------
(* the order of the driver calls of initialize *)

Positions(log, op) == {i \in DOMAIN log : log[i].op = op}
Lowest(S) == CHOOSE i \in S : \A j \in S : i <= j

\* the resources a descriptor attaches
PresentResources(rt) ==
  Cardinality({k \in DOMAIN rt.colorAttachments : rt.colorAttachments[k].texture # nullptr})
  + (IF rt.depthAttachment.texture # nullptr THEN 1 ELSE 0)
  + (IF rt.stencilAttachment.texture # nullptr THEN 1 ELSE 0)

\* C23: a first initialize on the explicit path allocates the framebuffer, binds
\* it at once, then issues one attach call for every present colour, depth and
\* stencil resource (and the draw-buffer declaration) and nothing else, then
\* validates completeness; a nested resolve target is constructed, and any
\* further framebuffer allocated, only after that validation and only if it
\* found the framebuffer complete; if it did not, the result is the validation's
\* (never the partial-resolve rejection), there is no nested target and only the
\* guard's rebinds follow.
C23_InitializeOrder ==
  (FirstInitialize /\ ~ImplicitPath) =>
    LET log == gl.log
        gens == Positions(log, "genFramebuffers")
        p == Lowest(gens)
        checks == {i \in Positions(log, "checkFramebufferStatus") : i > p}
        v == Lowest(checks)
    IN /\ gens # {} /\ checks # {}
       /\ log[p].a = fbo.frameBufferID_
       /\ log[p + 1] = Call("bindFramebuffer", "GL_FRAMEBUFFER", fbo.frameBufferID_)
       /\ \A i \in (p + 2) .. (v - 1) : log[i].op \in AttachCallOps \cup {"drawBuffers"}
       /\ Cardinality({i \in (p + 2) .. (v - 1) : log[i].op \in AttachCallOps})
            = PresentResources(fbo.renderTarget_)
       /\ \A i \in 1 .. p : log[i].op \notin AttachCallOps
       /\ \A q \in gens \ {p} : q > v
       /\ (fbo.resolveFramebuffer.exists \/ gens # {p}) => Validated(fbo)
       /\ ~Validated(fbo) =>
            /\ ~fbo.resolveFramebuffer.exists
            /\ NamesStatus(last.result, FramebufferStatusOf(gl, fbo.frameBufferID_))
            /\ \A i \in (v + 1) .. Len(log) : log[i].op \in {"bindFramebuffer", "bindRenderbuffer"}

\* validation failed on a descriptor with a partial resolve declaration
C23_Witness ==
  /\ FirstInitialize /\ ~ImplicitPath /\ ~Validated(fbo)
  /\ PartialResolve(fbo.renderTarget_)
  /\ PresentResources(fbo.renderTarget_) > 2
  /\ last.result.code = "RuntimeError"

---------------------------------------------------------------------------
(* bind and unbind cycles: the order of the calls, the stencil test, the cached
   pass, the attachments that count *)

\* a pass whose colour entries carry their index in the clear colour
PassOf(c0, cn, d, st) ==
  [colorAttachments |->
     [i \in ColorIdx |->
        [loadAction |-> IF i = 0 THEN c0[1] ELSE cn[1],
         storeAction |-> IF i = 0 THEN c0[2] ELSE cn[2],
         clearColor |-> <<"clearColor", i>>, layer |-> 0, mipmapLevel |-> 0]],
   depthAttachment |-> PassDepth(d[1], d[2]),
   stencilAttachment |-> PassStencil(st[1], st[2])]

CyclePasses ==
  {PassOf(c0, cn, d, st) :
     c0 \in {<<"Clear", "Store">>, <<"Load", "DontCare">>, <<"DontCare", "Store">>},
     cn \in {<<"Clear", "DontCare">>, <<"Load", "Store">>},
     d \in {<<"Clear", "Store">>, <<"Load", "DontCare">>},
     st \in {<<"Clear", "Store">>, <<"Load", "DontCare">>}}

\* 2D and cube colour attachments at 0, at the highest index, at both or at
\* neither, with and without depth and stencil; and one descriptor whose resolve
\* textures give the object a nested resolve target
CycleDescriptors ==
  {FramebufferDesc([k \in DOMAIN c |-> AttachmentDesc(c[k], nullptr)], d, st, "Mono") :
     c \in {NoColorAttachments, (0 :> 1), (0 :> 4), (0 :> 1) @@ (MaxColorIdx :> 1),
            (0 :> 4) @@ (MaxColorIdx :> 4), (MaxColorIdx :> 1)},
     d \in {AttachmentDesc(nullptr, nullptr), AttachmentDesc(1, nullptr)},
     st \in {AttachmentDesc(nullptr, nullptr), AttachmentDesc(1, nullptr)}}
  \cup {FramebufferDesc((0 :> AttachmentDesc(1, 2)), AttachmentDesc(1, 2),
                        AttachmentDesc(1, 2), "Mono")}

\* the passes the other object is bound with: everything cleared and stored, or
\* everything loaded and discarded
OtherPasses ==
  {PassOf(<<"Clear", "Store">>, <<"Load", "Store">>, <<"Clear", "Store">>, <<"Clear", "Store">>),
   PassOf(<<"Load", "DontCare">>, <<"Load", "Store">>, <<"Load", "DontCare">>,
          <<"Load", "DontCare">>)}

CycleInit ==
  /\ features \in {f \in AllFeatures : f.ReadWriteFramebuffer /\ f.InvalidateFramebuffer
                                       /\ ~f.SRGB /\ ~f.TextureInteger /\ ~f.IGL_OPENGL_ES}
  /\ gl \in {g \in CallContexts : g.drawFB = 0}
  /\ guards = <<>>
  /\ fbo = NewCustomFramebuffer
  /\ mapOrder \in {Ascending, Descending}
  /\ last = NoOp

\* the pass of the most recent bind of the object, as the caller remembers it
Remembered == IF "pass" \in DOMAIN last THEN last.pass ELSE NoPass

\* that bind replaced the pass of an earlier bind by a different one
Replaced == "replaced" \in DOMAIN last /\ last.replaced
\* another object was bound since
OtherSince == "otherSince" \in DOMAIN last /\ last.otherSince

InitializeCycle == ~fbo.initialized_ /\ InitializeFrom(CycleDescriptors)

\* fbo.bind(renderPass)
CycleBind ==
  /\ fbo.exists /\ fbo.initialized_
  /\ \E renderPass \in CyclePasses :
       LET r == bind(fbo, Fresh(gl), renderPass)
       IN /\ fbo' = r.obj
          /\ gl' = r.g
          /\ last' = [op |-> "bind", pass |-> renderPass,
                      replaced |-> fbo.renderPass_ \notin {NoPass, renderPass},
                      otherSince |-> FALSE, preStencil |-> gl.stencilTest]
  /\ UNCHANGED <<features, guards, mapOrder>>

\* fbo.unbind(), after a bind
CycleUnbind ==
  /\ fbo.exists /\ fbo.initialized_ /\ fbo.renderPass_ # NoPass
  /\ gl' = unbind(fbo, Fresh(gl))
  /\ last' = [op |-> "unbind", pass |-> Remembered, replaced |-> Replaced,
              otherSince |-> OtherSince, preStencil |-> gl.stencilTest]
  /\ UNCHANGED <<features, guards, fbo, mapOrder>>

\* the nested resolve target, another Render Target Object, is bound
BindOther ==
  /\ fbo.exists /\ fbo.resolveFramebuffer.exists
  /\ \E renderPass \in OtherPasses :
       LET r == bind(fbo.resolveFramebuffer, Fresh(gl), renderPass)
       IN /\ fbo' = [fbo EXCEPT !.resolveFramebuffer = r.obj]
          /\ gl' = r.g
          /\ last' = [op |-> "bindOther", pass |-> Remembered, other |-> renderPass,
                      replaced |-> Replaced, otherSince |-> TRUE,
                      preStencil |-> gl.stencilTest]
  /\ UNCHANGED <<features, guards, mapOrder>>

\* the caller switches the stencil test
CallerStencilTest ==
  /\ \E on \in BOOLEAN :
       gl' = IF on THEN glEnable(Fresh(gl), "GL_STENCIL_TEST")
             ELSE glDisable(Fresh(gl), "GL_STENCIL_TEST")
  /\ last' = [op |-> "stencilTest", pass |-> Remembered, replaced |-> Replaced,
              otherSince |-> OtherSince]
  /\ UNCHANGED <<features, guards, fbo, mapOrder>>

CycleNext == InitializeCycle \/ CycleBind \/ CycleUnbind \/ BindOther \/ CallerStencilTest

SpecCycle == CycleInit /\ [][CycleNext]_vars

\* the positions in a log of the calls named in ops
PositionsOf(log, ops) == {i \in DOMAIN log : log[i].op \in ops}

ClearValueOps == {"clearColor", "clearDepthf", "clearStencil"}
WriteMaskOps == {"colorMask", "depthMask", "stencilMask"}

\* the cube textures a descriptor attaches
CubeAttachments(rt) ==
  {k \in DOMAIN rt.colorAttachments :
     /\ rt.colorAttachments[k].texture # nullptr
     /\ TextureTable[rt.colorAttachments[k].texture].type = "Cube"}

\* C24 as stated: within a bind every attach call precedes a completeness
\* validation, which precedes the clear-value and write-mask calls and the
\* combined clear; no attach follows the clear.
C24_AttachValidateClear ==
  last.op = "bind" =>
    LET attaches == PositionsOf(gl.log, AttachCallOps)
        checks == PositionsOf(gl.log, {"checkFramebufferStatus"})
        clears == PositionsOf(gl.log, ClearValueOps \cup WriteMaskOps \cup {"clear"})
    IN /\ \A a \in attaches : \E v \in checks : a < v
       /\ \A c \in clears : \E v \in checks : v < c
       /\ \A a \in attaches, c \in clears : a < c

\* C24 (amended): a bind binds the object's framebuffer first, re-attaches every
\* cube colour attachment once, and only then issues the write-mask and
\* clear-value calls, each mask directly before its value, and last of all the
\* one combined clear; no attach call follows a mask, value or clear call, and
\* bind issues no completeness validation.
C24_AttachThenClear ==
  last.op = "bind" =>
    LET log == gl.log
        attaches == PositionsOf(log, AttachCallOps)
        clears == PositionsOf(log, ClearValueOps \cup WriteMaskOps \cup {"clear"})
    IN /\ log[1] = Call("bindFramebuffer", "GL_FRAMEBUFFER", fbo.frameBufferID_)
       /\ PositionsOf(log, {"checkFramebufferStatus"}) = {}
       /\ Cardinality(attaches) = Cardinality(CubeAttachments(fbo.renderTarget_))
       /\ \A a \in attaches, c \in clears : a < c
       /\ \A m \in PositionsOf(log, WriteMaskOps) : log[m + 1].op \in ClearValueOps
       /\ \A c \in PositionsOf(log, {"clear"}) : c = Len(log)
       /\ clears # {} => log[Len(log)].op = "clear"

\* two cube faces re-attached and colour, depth and stencil cleared
C24_Witness ==
  /\ last.op = "bind"
  /\ Cardinality(PositionsOf(gl.log, AttachCallOps)) = 2
  /\ Cardinality(PositionsOf(gl.log, ClearValueOps)) = 3
  /\ gl.log[Len(gl.log)].op = "clear"

\* the calls of a log that switch the stencil test
StencilTestCalls(log) ==
  SelectSeq(log, LAMBDA c : c.op \in {"enable", "disable"} /\ c.a = "GL_STENCIL_TEST")

\* C25: a bind of an object with a stencil attachment enables the stencil test,
\* whatever the stencil load action, and an unbind of it disables the test,
\* whatever the stencil store action, so the test is off after every unbind of
\* such an object; a bind or unbind of an object without a stencil attachment
\* issues no call on the stencil test and leaves it as it was.
C25_StencilTestFollowsAttachment ==
  last.op \in {"bind", "unbind"} =>
    IF fbo.renderTarget_.stencilAttachment.texture # nullptr
      THEN /\ Len(StencilTestCalls(gl.log)) = 1
           /\ StencilTestCalls(gl.log)[1].op = IF last.op = "bind" THEN "enable" ELSE "disable"
           /\ gl.stencilTest <=> last.op = "bind"
      ELSE /\ StencilTestCalls(gl.log) = <<>>
           /\ gl.stencilTest = last.preStencil

\* the test switched off by an unbind that stores the stencil
C25_Witness ==
  /\ last.op = "unbind" /\ fbo.renderTarget_.stencilAttachment.texture # nullptr
  /\ fbo.renderPass_.stencilAttachment.storeAction = "Store"
  /\ last.preStencil /\ ~gl.stencilTest

\* the attachments a pass asks to discard on an object with the descriptor rt
DiscardedBy(rt, pass) ==
  (IF 0 \in DOMAIN rt.colorAttachments /\ rt.colorAttachments[0].texture # nullptr
      /\ pass.colorAttachments[0].storeAction # "Store"
     THEN {"GL_COLOR_ATTACHMENT0"} ELSE {})
  \cup (IF rt.depthAttachment.texture # nullptr /\ pass.depthAttachment.storeAction # "Store"
          THEN {"GL_DEPTH_ATTACHMENT"} ELSE {})
  \cup (IF rt.stencilAttachment.texture # nullptr /\ pass.stencilAttachment.storeAction # "Store"
          THEN {"GL_STENCIL_ATTACHMENT"} ELSE {})

\* C26: the invalidate list of an unbind is decided by the store actions of the
\* pass given to the most recent bind of the same object, whatever passes earlier
\* binds of it were given and whatever pass another Render Target Object was
\* bound with in between.
C26_UnbindUsesLastPass ==
  (last.op = "unbind" /\ features.InvalidateFramebuffer) =>
    LET calls == InvalidateCalls(gl.log)
        owed == DiscardedBy(fbo.renderTarget_, last.pass)
    IN /\ Len(calls) = (IF owed = {} THEN 0 ELSE 1)
       /\ \A i \in DOMAIN calls : SeqElems(calls[i].b) = owed

\* bind(p1), bind(p2), a bind of the nested target with a pass that stores what
\* p2 discards, unbind
C26_Witness ==
  /\ last.op = "unbind" /\ last.replaced /\ last.otherSince
  /\ fbo.resolveFramebuffer.renderPass_ # NoPass
  /\ fbo.resolveFramebuffer.renderPass_.depthAttachment.storeAction = "Store"
  /\ last.pass.depthAttachment.storeAction = "DontCare"
  /\ Len(InvalidateCalls(gl.log)) = 1

\* C28: the colour bit of the clear of a bind, the one clear colour a bind sets
\* and the colour entry of the invalidate list of an unbind are decided by colour
\* attachment 0 and entry 0 of the pass alone: the bit is set, and the clear
\* colour of entry 0 applied, if and only if attachment 0 is present and its load
\* action is Clear; the list names colour attachment 0, and no other colour
\* attachment, if and only if attachment 0 is present and its store action is not
\* Store; the load and store actions of higher indices change neither, and with
\* attachment 0 absent there is no colour bit, clear colour or colour entry.
C28_ColorZeroOnly ==
  LET zero == getColorAttachment(fbo, 0) # nullptr
      colorValues == SelectSeq(gl.log, LAMBDA c : c.op = "clearColor")
      maskBits == UNION {BitsOf(gl.log[i].a) : i \in PositionsOf(gl.log, {"clear"})}
      listed == UNION {SeqElems(gl.log[i].b) : i \in PositionsOf(gl.log, {"invalidateFramebuffer"})}
  IN /\ last.op = "bind" =>
          /\ GL_COLOR_BUFFER_BIT \in maskBits
               <=> (zero /\ last.pass.colorAttachments[0].loadAction = "Clear")
          /\ Len(colorValues) = (IF GL_COLOR_BUFFER_BIT \in maskBits THEN 1 ELSE 0)
          /\ \A i \in DOMAIN colorValues :
               colorValues[i].a = last.pass.colorAttachments[0].clearColor
     /\ (last.op = "unbind" /\ features.InvalidateFramebuffer) =>
          /\ listed \subseteq {"GL_COLOR_ATTACHMENT0", "GL_DEPTH_ATTACHMENT", "GL_STENCIL_ATTACHMENT"}
          /\ "GL_COLOR_ATTACHMENT0" \in listed
               <=> (zero /\ last.pass.colorAttachments[0].storeAction # "Store")

\* the highest colour attachment is present and its pass entry asks for no
\* store, attachment 0 is absent: the unbind discards the depth only
C28_Witness ==
  /\ last.op = "unbind"
  /\ getColorAttachment(fbo, 0) = nullptr
  /\ getColorAttachment(fbo, MaxColorIdx) # nullptr
  /\ last.pass.colorAttachments[MaxColorIdx].storeAction = "DontCare"
  /\ last.pass.colorAttachments[MaxColorIdx].loadAction = "Clear"
  /\ last.pass.colorAttachments[0].storeAction = "DontCare"
  /\ Len(InvalidateCalls(gl.log)) = 1
  /\ InvalidateCalls(gl.log)[1].b = <<"GL_DEPTH_ATTACHMENT">>

---------------------------------------------------------------------------
(* the sRGB state a bind leaves *)

\* sRGB and linear colour attachments at 0 and at the highest index
SRGBDescriptors ==
  {FramebufferDesc([k \in DOMAIN c |-> AttachmentDesc(c[k], nullptr)],
                   AttachmentDesc(nullptr, nullptr), AttachmentDesc(nullptr, nullptr), "Mono") :
     c \in {NoColorAttachments, (0 :> 1), (0 :> 2), (MaxColorIdx :> 2),
            (0 :> 1) @@ (MaxColorIdx :> 2), (0 :> 2) @@ (MaxColorIdx :> 1),
            (0 :> 2) @@ (MaxColorIdx :> 2)}}

SRGBInit ==
  /\ features \in {f \in AllFeatures : f.ReadWriteFramebuffer /\ ~f.InvalidateFramebuffer
                                       /\ ~f.TextureInteger}
  /\ gl \in {g \in CallContexts : g.drawFB = 0}
  /\ guards = <<>>
  /\ fbo = NewCustomFramebuffer
  /\ mapOrder \in {Ascending, Descending}
  /\ last = NoOp

InitializeSRGB == ~fbo.initialized_ /\ InitializeFrom(SRGBDescriptors)

\* fbo.bind(renderPass) with a pass that loads everything
SRGBBind ==
  /\ fbo.exists /\ fbo.initialized_
  /\ LET r == bind(fbo, Fresh(gl),
                   PassOf(<<"Load", "Store">>, <<"Load", "Store">>, <<"Load", "Store">>,
                          <<"Load", "Store">>))
     IN fbo' = r.obj /\ gl' = r.g
  /\ last' = [op |-> "bind", preSRGB |-> gl.sRGB]
  /\ UNCHANGED <<features, guards, mapOrder>>

\* the caller switches GL_FRAMEBUFFER_SRGB
CallerSRGB ==
  /\ \E on \in BOOLEAN :
       gl' = IF on THEN glEnable(Fresh(gl), "GL_FRAMEBUFFER_SRGB")
             ELSE glDisable(Fresh(gl), "GL_FRAMEBUFFER_SRGB")
  /\ last' = [op |-> "sRGB"]
  /\ UNCHANGED <<features, guards, fbo, mapOrder>>

SRGBNext == InitializeSRGB \/ SRGBBind \/ CallerSRGB

SpecSRGB == SRGBInit /\ [][SRGBNext]_vars

SRGBCalls(log) ==
  SelectSeq(log, LAMBDA c : c.op \in {"enable", "disable"} /\ c.a = "GL_FRAMEBUFFER_SRGB")

\* C27, on the desktop build: with the sRGB capability a bind of an object with
\* a colour attachment 0 leaves GL_FRAMEBUFFER_SRGB enabled if and only if the
\* format of attachment 0 is sRGB, whatever the other colour attachments are and
\* in whatever order the mapping is iterated; without the capability a bind issues
\* no call on the sRGB state and leaves it as it was.
C27_SRGBFollowsAttachmentZero ==
  (last.op = "bind" /\ ~features.IGL_OPENGL_ES) =>
    IF features.SRGB
      THEN getColorAttachment(fbo, 0) # nullptr =>
             (gl.sRGB <=> TextureTable[getColorAttachment(fbo, 0)].sRGB)
      ELSE SRGBCalls(gl.log) = <<>> /\ gl.sRGB = last.preSRGB

---------------------------------------------------------------------------
(* the scratch framebuffer of a layered pixel copy *)

\* the positions of the calls that attach texture t to, and detach it from, the
\* read framebuffer
LayerCalls(log, t) ==
  {i \in DOMAIN log : log[i].op = "framebufferTextureLayer" /\ log[i].a = t}

\* the calls of a layered copy other than the pixel read are there once each and
\* in order, inside the calls of one guard; nothing is left of the scratch
\* framebuffer and the object's framebuffer keeps its attachments
ScratchSequence(log, t, reads) ==
  LET gens == Positions(log, "genFramebuffers")
      dels == Positions(log, "deleteFramebuffers")
      attaches == LayerCalls(log, t)
      detaches == LayerCalls(log, 0)
  IN /\ Cardinality(gens) = 1 /\ Cardinality(dels) = 1
     /\ Cardinality(attaches) = 1 /\ Cardinality(detaches) = 1
     /\ LET pg == Lowest(gens)
            pa == Lowest(attaches)
            pd == Lowest(detaches)
            px == Lowest(dels)
        IN /\ log[pg].a \notin last.preAlloc \cup {0}
           /\ log[pg + 1] = Call("bindFramebuffer", "GL_READ_FRAMEBUFFER", log[pg].a)
           /\ pa = pg + 2 /\ log[pa].b = last.layer
           /\ \A r \in reads : pa < r /\ r < pd
           /\ pa < pd /\ pd < px
           /\ log[px].a = log[pg].a
           /\ log[1] = Call("getIntegerv", "GL_RENDERBUFFER_BINDING", 0)
           /\ Positions(log, "bindRenderbuffer") = {Len(log)}
           /\ px < Len(log)
           /\ \A b \in Positions(log, "bindFramebuffer") \ {pg + 1} : px < b
     /\ gl.alloc = last.preAlloc
     /\ fbo.frameBufferID_ # 0 => gl.att[fbo.frameBufferID_] = last.preAtt[fbo.frameBufferID_]

\* a copy of bytes from attachment 0, which is there
CopiesAttachmentZero ==
  last.op = "copyBytes" /\ last.index = 0 /\ getColorAttachment(fbo, 0) # nullptr

\* C29 as stated: for an attachment of more than one layer a scratch framebuffer
\* is created, the layer attached, the pixel copy performed, the layer detached
\* and the scratch framebuffer deleted, in that order inside one guard, nothing
\* of it remaining and the object's attachments unchanged; for one layer no
\* framebuffer is created or deleted.
C29_ScratchAlwaysCopies ==
  CopiesAttachmentZero =>
    LET t == getColorAttachment(fbo, 0)
        reads == Positions(gl.log, "readPixels")
    IN IF TextureTable[t].layers > 1
         THEN Cardinality(reads) = 1 /\ ScratchSequence(gl.log, t, reads)
         ELSE Positions(gl.log, "genFramebuffers") \cup Positions(gl.log, "deleteFramebuffers") = {}

\* C29 (amended): as stated, but the pixel copy is there only if the format has
\* a transfer: for a 32-bit unsigned integer array texture on a driver without
\* integer-texture support no pixel read is issued between the attach and the
\* detach, and the rest of the sequence is the same; with separate read and
\* draw binding points the pixels that are read come from the scratch
\* framebuffer.
C29_ScratchSequenceByFormat ==
  CopiesAttachmentZero =>
    LET t == getColorAttachment(fbo, 0)
        reads == Positions(gl.log, "readPixels")
        none == TextureTable[t].format = "RGBA_UInt32" /\ ~features.TextureInteger
    IN /\ Cardinality(reads) = (IF none THEN 0 ELSE 1)
       /\ IF TextureTable[t].layers > 1
            THEN /\ ScratchSequence(gl.log, t, reads)
                 /\ (features.ReadWriteFramebuffer /\ ~none) =>
                      last.pixelBytes.from \notin last.preAlloc \cup {0}
            ELSE /\ Positions(gl.log, "genFramebuffers") = {}
                 /\ Positions(gl.log, "deleteFramebuffers") = {}
                 /\ gl.alloc = last.preAlloc /\ gl.att = last.preAtt

\* layer 1 of the 8-bit array texture read through a scratch framebuffer
C29_Witness ==
  /\ CopiesAttachmentZero /\ getColorAttachment(fbo, 0) = 10 /\ last.layer = 1
  /\ features.ReadWriteFramebuffer
  /\ Cardinality(Positions(gl.log, "deleteFramebuffers")) = 1
  /\ last.pixelBytes.format = "GL_RGBA"

---------------------------------------------------------------------------
(* the initialized flag *)

\* C30: after any initialize call, whatever its result, isInitialized() is true,
\* and it stays true; an initialize on an object on which initialize was called
\* before, also one that failed validation or the partial-resolve check, is
\* rejected, issues no driver call and leaves the object (its descriptor, its
\* framebuffer identifier, its nested resolve target) as it was.
C30_InitializedOnce ==
  /\ [](last.op = "initialize" => isInitialized(fbo))
  /\ [][isInitialized(fbo) =>
          /\ isInitialized(fbo')
          /\ last'.op = "initialize" =>
               /\ ~isOk(last'.result)
               /\ fbo' = fbo
               /\ gl'.log = <<>>
               /\ gl' = Fresh(gl)]_vars

\* a second initialize after one that rejected a partial resolve
C30_Witness ==
  /\ last.op = "initialize" /\ last.wasInitialized
  /\ PartialResolve(fbo.renderTarget_) /\ Validated(fbo)
  /\ ~fbo.resolveFramebuffer.exists
  /\ gl.log = <<>>

====
